---- MODULE Spec2Model ----
(***************************************************************************)
(* The authentication and session-authorization core of the landing page   *)
(* server: credential store, login with rate limiting, sessions, the admin *)
(* gate and the routes that use it.  Every access to the key-value store   *)
(* is one step, so that concurrent requests interleave between any two     *)
(* awaits.                                                                 *)
(***************************************************************************)
EXTENDS Integers, Sequences, FiniteSets, TLC

VARIABLES
  users,       \* key user:<username>            -> User record
  sessions,    \* key session:<token>            -> Session record
  ratelimit,   \* key ratelimit:login:<username> -> failure count
  statistics,  \* key statistics : <<>> (absent) or <<record>>
  profile,     \* key profile    : <<>> (absent) or <<record>>
  now,         \* the clock, in days
  tokenCtr,    \* number of tokens generateToken has produced
  boot,        \* position of the startup call of initializeUsers
  proc,        \* the requests in flight: position, arguments, locals, result
  fails,       \* history: consecutive failed logins per username
  revoked,     \* history: tokens on which a logout has completed
  grants,      \* history: token -> the username, role and time of its login,
               \* and whether that login has returned success
  obs,         \* history: what each request saw when it started
  tally,       \* history: logins that returned success, profile views
               \* counted, failed logins evaluated since the last reset
  client       \* the browser: the 'session' item of sessionStorage, the
               \* client library's calls in flight, the last answer of
               \* getCurrentUser or isAdmin

vars == <<users, sessions, ratelimit, statistics, profile, now, tokenCtr,
          boot, proc, fails, revoked, grants, obs, tally, client>>

kvVars == <<users, sessions, ratelimit, statistics, profile>>

----------------------------------------------------------------------------
(* Bounds of the model *)

MaxProcs == 2
MaxTokens == 2
MaxTime == 8
MaxSalt == 2
MaxStreak == 5
MaxViews == 2
MaxEvaluated == 6

(* Program constants *)

MaxAttempts == 5
SessionTTL == 7
MinUsername == 3
MaxUsername == 20
MinPassword == 4
MaxLoginUsername == 50
MaxLoginPassword == 100

Procs == 1..MaxProcs

\* The one process of the specifications in which requests run one at a time
SeqProcs == {1}
Tokens == 1..MaxTokens
Salts == 1..MaxSalt

\* The empty string as a token: the only token for which !token is true.
EmptyToken == 0
\* A non-empty string that generateToken never returns.
ForgedToken == -1

\* Inputs of the requests
ShortName == "al"
LongName == "a_username_of_21_char"
\* The shortest and the longest username that createUser accepts
MinName == "bob"
MaxName == "a_username_of_20_chr"
\* A username and a password that the login route refuses as too long
LoginLongName == "a_username_of_51_characters_is_too_long_for_a_login"
LoginLongPassword ==
  "a_password_of_101_characters_is_too_long_for_the_login_route_"
    \o "and_it_is_refused_before_auth_login_runs"
\* The JSON number 7 sent where a username is expected: `user:${username}`
\* renders it as '7'
NumberName == "7"
\* The usernames of the model that stand for JSON numbers
JsonNumbers == {NumberName}
AllUsernames ==
  {"vossi", "hannes", "alice", ShortName, LongName, MinName, MaxName,
   LoginLongName, NumberName}
ShortPassword == "abc"
AllPasswords == {"password", "1511", "pass1", ShortPassword}

None == << >>
Some(x) == << x >>

----------------------------------------------------------------------------
(* The key-value store *)

EmptyKv == [k \in {} |-> None]

KvHas(store, key) == key \in DOMAIN store

KvSet(store, key, value) ==
  [k \in DOMAIN store \cup {key} |-> IF k = key THEN value ELSE store[k]]

KvDel(store, key) == [k \in DOMAIN store \ {key} |-> store[k]]

\* kv.get: the stored value or null
KvGet(store, key) == IF key \in DOMAIN store THEN Some(store[key]) ELSE None

\* kv.getByPrefix('user:'): every stored user record
KvValues(store) == {store[k] : k \in DOMAIN store}

----------------------------------------------------------------------------
(* bcrypt: a digest carries its salt; compare re-hashes with that salt *)

BcryptHash(password, salt) == [pw |-> password, salt |-> salt]

BcryptCompare(password, digest) == digest.pw = password

----------------------------------------------------------------------------
(* Results *)

NoResult == [success |-> FALSE, error |-> "pending", token |-> EmptyToken,
             username |-> "", role |-> "", data |-> {}]

Ok == [NoResult EXCEPT !.success = TRUE, !.error = ""]

Err(msg) == [NoResult EXCEPT !.error = msg]

LoginOk(token, role) == [Ok EXCEPT !.token = token, !.role = role]

SessionValid(username, role) == [Ok EXCEPT !.username = username, !.role = role]

SessionInvalid == Err("invalid")

E_USER_EXISTS == "User already exists"
E_USERNAME == "Username must be between 3 and 20 characters"
E_PASSWORD == "Password must be at least 4 characters"
E_NOT_FOUND == "User not found"
E_LAST_ADMIN == "Cannot delete the last admin user"
E_TOO_MANY == "Too many login attempts. Please try again in 15 minutes."
E_INVALID_CREDENTIALS == "Invalid credentials"
E_INVALID_SESSION == "Invalid or expired session"
E_ADMIN_REQUIRED == "Admin access required"
E_UNAUTHORIZED == "Unauthorized"
E_BODY_USER == "Username and password are required"
E_BODY_PASSWORD == "New password is required"
E_INPUT_FORMAT == "Invalid input format"
E_INPUT_LONG == "Input too long"
E_LOGIN_SERVER == "Login failed - server error"
E_REJECTED == "rejected promise"

----------------------------------------------------------------------------
(* The client library: its calls and its view of the server *)

\* A call of the client library that has not started
ClientIdle == [pc |-> "idle", op |-> "none", outcome |-> "none",
               result |-> FALSE]

\* No synchronous answer yet
NoAnswer == [fn |-> "none", username |-> None, user |-> None,
             admin |-> FALSE]

\* How a fetch ends: a 2xx response, any other response, or a rejected
\* promise (network error)
FetchOutcomes == {"ok", "error", "network"}

\* The session that a 2xx answer of POST /auth/login with success: true
\* carries: data.token, data.username, data.role
LoginData ==
  {[token |-> 1, username |-> "vossi", role |-> "admin"],
   [token |-> 2, username |-> "hannes", role |-> "user"]}

\* The optional argument of isAdmin: absent, the empty string, or a username
UsernameArgs == {None, Some(""), Some("vossi"), Some("hannes")}

\* JavaScript truthiness of an optional string
Truthy(string) == string # None /\ string[1] # ""

----------------------------------------------------------------------------
(* Requests *)

Idle == [pc |-> "idle", op |-> "none", route |-> "none", username |-> "",
         password |-> "", role |-> "", token |-> EmptyToken,
         updates |-> EmptyKv, user |-> None, attempts |-> None,
         stats |-> None, current |-> None, authorized |-> FALSE,
         result |-> NoResult]

NoObs == [streak |-> 0, locked |-> FALSE, prev |-> "none", role |-> "",
          revoked |-> FALSE, stored |-> FALSE, again |-> FALSE,
          admin |-> FALSE, shape |-> "", updated |-> "none"]

InFlight(p) == proc[p].pc \notin {"idle", "done"}

CanStart(p) == proc[p].pc \in {"idle", "done"}

\* A request that returns: the locals are dropped, the result is kept.  Of a
\* request to a route only the route, the verdict of requireAdmin and the
\* response remain.
Return(p, result) ==
  IF proc[p].route = "none"
    THEN [proc EXCEPT ![p].pc = "done", ![p].user = None,
                      ![p].attempts = None, ![p].stats = None,
                      ![p].current = None, ![p].result = result]
    ELSE [proc EXCEPT ![p] =
           [Idle EXCEPT !.pc = "done", !.op = proc[p].op,
                        !.route = proc[p].route,
                        !.authorized = proc[p].authorized,
                        !.result = result]]

\* A call of an exported function of the auth module, outside any route
Call(p, op, pc, username, password, role, token) ==
  [proc EXCEPT ![p] = [Idle EXCEPT !.pc = pc, !.op = op,
                                   !.username = username,
                                   !.password = password,
                                   !.role = role, !.token = token]]

AdminCount(store) == Cardinality({k \in DOMAIN store : store[k].role = "admin"})

----------------------------------------------------------------------------
Init ==
  /\ users = EmptyKv
  /\ sessions = EmptyKv
  /\ ratelimit = EmptyKv
  /\ statistics = None
  /\ profile = None
  /\ now = 0
  /\ tokenCtr = 0
  /\ boot = "start"
  /\ proc = [p \in Procs |-> Idle]
  /\ fails = [u \in AllUsernames |-> 0]
  /\ revoked = {}
  /\ grants = EmptyKv
  /\ obs = [p \in Procs |-> NoObs]
  /\ tally = [logins |-> 0, views |-> 0,
              evaluated |-> [u \in AllUsernames |-> 0]]
  /\ client = [session |-> None, call |-> [c \in Procs |-> ClientIdle],
               seen |-> NoAnswer]

----------------------------------------------------------------------------
(* initializeUsers, called once when the server starts *)

DefaultAdmin(salt) ==
  [username |-> "vossi", passwordHash |-> BcryptHash("password", salt),
   role |-> "admin", createdAt |-> now]

DefaultUser(salt) ==
  [username |-> "hannes", passwordHash |-> BcryptHash("1511", salt),
   role |-> "user", createdAt |-> now]

\* A startup that writes the default users whatever the store holds
InitializeUsersRead_Always ==
  /\ boot = "start"
  /\ boot' = "set_admin"
  /\ UNCHANGED <<kvVars, now, tokenCtr, proc, fails, revoked, grants, obs,
                 tally, client>>

InitializeUsersRead ==
  /\ boot = "start"
  /\ boot' = IF KvValues(users) = {} THEN "set_admin" ELSE "profile_get"
  /\ UNCHANGED <<kvVars, now, tokenCtr, proc, fails, revoked, grants, obs,
                 tally, client>>

InitializeUsersSetAdmin(salt) ==
  /\ boot = "set_admin"
  /\ users' = KvSet(users, "vossi", DefaultAdmin(salt))
  /\ boot' = "set_user"
  /\ UNCHANGED <<sessions, ratelimit, statistics, profile, now, tokenCtr,
                 proc, fails, revoked, grants, obs, tally, client>>

InitializeUsersSetUser(salt) ==
  /\ boot = "set_user"
  /\ users' = KvSet(users, "hannes", DefaultUser(salt))
  /\ boot' = "profile_get"
  /\ UNCHANGED <<sessions, ratelimit, statistics, profile, now, tokenCtr,
                 proc, fails, revoked, grants, obs, tally, client>>

\* DEFAULT_PROFILE: its name, quote and updatedAt (the time the module loads);
\* the lists of names, hobbies, badges and links are fixed payload
DEFAULT_PROFILE ==
  [name |-> "Vossi",
   quote |-> [text |-> "Wer lesen kann ist klar im vorteil", author |-> "T.G."],
   updatedAt |-> 0]

\* initializeProfile, called at startup after initializeUsers
StartupProfileGet ==
  /\ boot = "profile_get"
  /\ boot' = IF profile = None THEN "profile_set" ELSE "done"
  /\ UNCHANGED <<kvVars, now, tokenCtr, proc, fails, revoked, grants, obs,
                 tally, client>>

StartupProfileSet ==
  /\ boot = "profile_set"
  /\ profile' = Some(DEFAULT_PROFILE)
  /\ boot' = "done"
  /\ UNCHANGED <<users, sessions, ratelimit, statistics, now, tokenCtr, proc,
                 fails, revoked, grants, obs, tally, client>>

----------------------------------------------------------------------------
(* createUser *)

\* username.length: the number of characters of a string, undefined (None)
\* for a number
JsLength(username) ==
  IF username \in JsonNumbers THEN None ELSE Some(Len(username))

\* length < n and length > n, both false when the length is undefined
JsLess(length, n) == length # None /\ length[1] < n
JsGreater(length, n) == length # None /\ length[1] > n

\* A length check that refuses a username of exactly 20 characters
UsernameOk_Below20(username) ==
  ~(\/ JsLess(JsLength(username), MinUsername)
    \/ ~JsLess(JsLength(username), MaxUsername))

\* !(username.length < 3 || username.length > 20)
UsernameOk(username) ==
  ~(\/ JsLess(JsLength(username), MinUsername)
    \/ JsGreater(JsLength(username), MaxUsername))

PasswordOk(password) == ~(Len(password) < MinPassword)

CallCreateUser(p, username, password, role) ==
  /\ CanStart(p)
  /\ proc' = Call(p, "createUser", "createUser_get", username, password, role,
                  EmptyToken)
  /\ obs' = [obs EXCEPT ![p] = NoObs]
  /\ UNCHANGED <<kvVars, now, tokenCtr, boot, fails, revoked, grants, tally,
                 client>>

\* const existingUser = await getUser(username), and the validation after it
CreateUserGet(p) ==
  /\ proc[p].pc = "createUser_get"
  /\ LET existingUser == KvGet(users, proc[p].username) IN
       proc' = IF existingUser # None
                 THEN Return(p, Err(E_USER_EXISTS))
               ELSE IF ~UsernameOk(proc[p].username)
                 THEN Return(p, Err(E_USERNAME))
               ELSE IF ~PasswordOk(proc[p].password)
                 THEN Return(p, Err(E_PASSWORD))
               ELSE [proc EXCEPT ![p].pc = "createUser_set"]
  /\ UNCHANGED <<kvVars, now, tokenCtr, boot, fails, revoked, grants, obs,
                 tally, client>>

CreateUserSet_HashesUsername(p, salt) ==
  /\ proc[p].pc = "createUser_set"
  /\ users' = KvSet(users, proc[p].username,
                    [username |-> proc[p].username,
                     passwordHash |-> BcryptHash(proc[p].username, salt),
                     role |-> proc[p].role,
                     createdAt |-> now])
  /\ proc' = Return(p, Ok)
  /\ UNCHANGED <<sessions, ratelimit, statistics, profile, now, tokenCtr,
                 boot, fails, revoked, grants, obs, tally, client>>

\* await kv.set(`user:${username}`, user)
CreateUserSet(p, salt) ==
  /\ proc[p].pc = "createUser_set"
  /\ users' = KvSet(users, proc[p].username,
                    [username |-> proc[p].username,
                     passwordHash |-> BcryptHash(proc[p].password, salt),
                     role |-> proc[p].role,
                     createdAt |-> now])
  /\ proc' = Return(p, Ok)
  /\ UNCHANGED <<sessions, ratelimit, statistics, profile, now, tokenCtr,
                 boot, fails, revoked, grants, obs, tally, client>>

----------------------------------------------------------------------------
(* updateUserPassword *)

CallUpdateUserPassword(p, username, newPassword) ==
  /\ CanStart(p)
  /\ proc' = Call(p, "updateUserPassword", "updateUserPassword_get", username,
                  newPassword, "", EmptyToken)
  /\ obs' = [obs EXCEPT ![p] = NoObs]
  /\ UNCHANGED <<kvVars, now, tokenCtr, boot, fails, revoked, grants, tally,
                 client>>

UpdateUserPasswordGet(p) ==
  /\ proc[p].pc = "updateUserPassword_get"
  /\ LET user == KvGet(users, proc[p].username) IN
       proc' = IF user = None
                 THEN Return(p, Err(E_NOT_FOUND))
               ELSE IF ~PasswordOk(proc[p].password)
                 THEN Return(p, Err(E_PASSWORD))
               ELSE [proc EXCEPT ![p].pc = "updateUserPassword_set",
                                 ![p].user = user]
  /\ UNCHANGED <<kvVars, now, tokenCtr, boot, fails, revoked, grants, obs,
                 tally, client>>

\* An update that writes a fresh record of role 'user' with the new digest
UpdateUserPasswordSet_ResetsRole(p, salt) ==
  /\ proc[p].pc = "updateUserPassword_set"
  /\ users' = KvSet(users, proc[p].username,
                    [proc[p].user[1] EXCEPT
                       !.passwordHash = BcryptHash(proc[p].password, salt),
                       !.role = "user"])
  /\ proc' = Return(p, Ok)
  /\ UNCHANGED <<sessions, ratelimit, statistics, profile, now, tokenCtr,
                 boot, fails, revoked, grants, obs, tally, client>>

\* user.passwordHash = ...; await kv.set(`user:${username}`, user)
UpdateUserPasswordSet(p, salt) ==
  /\ proc[p].pc = "updateUserPassword_set"
  /\ users' = KvSet(users, proc[p].username,
                    [proc[p].user[1] EXCEPT
                       !.passwordHash = BcryptHash(proc[p].password, salt)])
  /\ proc' = Return(p, Ok)
  /\ UNCHANGED <<sessions, ratelimit, statistics, profile, now, tokenCtr,
                 boot, fails, revoked, grants, obs, tally, client>>

----------------------------------------------------------------------------
(* deleteUser *)

IsLastAdmin_NoAdmins(user, allUsers) ==
  LET admins == {u \in allUsers : u.role = "admin"} IN
  user.role = "admin" /\ Cardinality(admins) = 0

\* user.role === 'admin' && admins.length === 1
IsLastAdmin(user, allUsers) ==
  LET admins == {u \in allUsers : u.role = "admin"} IN
  user.role = "admin" /\ Cardinality(admins) = 1

\* A listing that returns the stored records as they are
GetAllUsers_WithHash == KvValues(users)

\* getAllUsers: the records without their password hashes
GetAllUsers ==
  {[username |-> u.username, role |-> u.role, createdAt |-> u.createdAt] :
     u \in KvValues(users)}

CallDeleteUser(p, username) ==
  /\ CanStart(p)
  /\ proc' = Call(p, "deleteUser", "deleteUser_get", username, "", "",
                  EmptyToken)
  /\ obs' = [obs EXCEPT ![p] = NoObs]
  /\ UNCHANGED <<kvVars, now, tokenCtr, boot, fails, revoked, grants, tally,
                 client>>

DeleteUserGet(p) ==
  /\ proc[p].pc = "deleteUser_get"
  /\ LET user == KvGet(users, proc[p].username) IN
       proc' = IF user = None
                 THEN Return(p, Err(E_NOT_FOUND))
               ELSE [proc EXCEPT ![p].pc = "deleteUser_list",
                                 ![p].user = user]
  /\ UNCHANGED <<kvVars, now, tokenCtr, boot, fails, revoked, grants, obs,
                 tally, client>>

DeleteUserList(p) ==
  /\ proc[p].pc = "deleteUser_list"
  /\ proc' = IF IsLastAdmin(proc[p].user[1], GetAllUsers)
               THEN Return(p, Err(E_LAST_ADMIN))
               ELSE [proc EXCEPT ![p].pc = "deleteUser_del"]
  /\ UNCHANGED <<kvVars, now, tokenCtr, boot, fails, revoked, grants, obs,
                 tally, client>>

DeleteUserDel(p) ==
  /\ proc[p].pc = "deleteUser_del"
  /\ users' = KvDel(users, proc[p].username)
  /\ proc' = Return(p, Ok)
  /\ UNCHANGED <<sessions, ratelimit, statistics, profile, now, tokenCtr,
                 boot, fails, revoked, grants, obs, tally, client>>

----------------------------------------------------------------------------
(* login *)

IsLocked_Above(attempts) == attempts # None /\ attempts[1] > MaxAttempts

\* attempts && attempts >= 5
IsLocked(attempts) == attempts # None /\ attempts[1] >= MaxAttempts

\* (attempts || 0) + 1
NextAttempts(attempts) == (IF attempts = None THEN 0 ELSE attempts[1]) + 1

NewSession_DefaultRole(token, user) ==
  [token |-> token, username |-> user.username, role |-> "user",
   createdAt |-> now, expiresAt |-> now + SessionTTL]

\* A session whose lifetime is one day too long
NewSession_ExtraDay(token, user) ==
  [token |-> token, username |-> user.username, role |-> user.role,
   createdAt |-> now, expiresAt |-> now + SessionTTL + 1]

NewSession(token, user) ==
  [token |-> token, username |-> user.username, role |-> user.role,
   createdAt |-> now, expiresAt |-> now + SessionTTL]

DefaultStats == [totalLogins |-> 0, lastLogin |-> None, profileViews |-> 0]

LoginsInFlight == Cardinality({q \in Procs : proc[q].op = "login" /\ InFlight(q)})

\* The tokens a client can present: the empty string, a string that was never
\* issued, or a token that generateToken has returned
Presentable == {EmptyToken, ForgedToken} \cup (1..tokenCtr)

CallLogin(p, username, password) ==
  /\ CanStart(p)
  /\ tokenCtr + LoginsInFlight < MaxTokens
  /\ proc' = Call(p, "login", "login_rate", username, password, "", EmptyToken)
  /\ obs' = [obs EXCEPT ![p] =
       [NoObs EXCEPT
          !.streak = fails[username],
          !.locked = KvHas(ratelimit, username) /\ ratelimit[username] >= 5,
          !.role = IF KvHas(users, username) THEN users[username].role ELSE "",
          !.prev = IF proc[p].pc = "done" /\ proc[p].op = "createUser"
                      /\ proc[p].result.success /\ proc[p].username = username
                   THEN (IF proc[p].password = password THEN "same" ELSE "other")
                   ELSE "none",
          !.updated = IF proc[p].pc = "done"
                         /\ proc[p].op = "updateUserPassword"
                         /\ proc[p].result.success
                         /\ proc[p].username = username
                      THEN (IF proc[p].password = password
                              THEN "new" ELSE "other")
                      ELSE "none"]]
  /\ UNCHANGED <<kvVars, now, tokenCtr, boot, fails, revoked, grants, tally,
                 client>>

\* A locked login that still counts the attempt
LoginRate_CountsLocked(p) ==
  /\ proc[p].pc = "login_rate"
  /\ LET attempts == KvGet(ratelimit, proc[p].username) IN
       IF IsLocked(attempts)
         THEN /\ proc' = Return(p, Err(E_TOO_MANY))
              /\ ratelimit' = KvSet(ratelimit, proc[p].username,
                                    NextAttempts(attempts))
              /\ fails' = [fails EXCEPT ![proc[p].username] =
                             IF @ < MaxStreak THEN @ + 1 ELSE @]
         ELSE /\ proc' = [proc EXCEPT ![p].pc = "login_user",
                                      ![p].attempts = attempts]
              /\ ratelimit' = ratelimit
              /\ fails' = fails
  /\ UNCHANGED <<users, sessions, statistics, profile, now, tokenCtr, boot,
                 revoked, grants, obs, tally, client>>

\* A login that looks the user up before it checks the lock
LoginRate_UserFirst(p) ==
  /\ proc[p].pc = "login_rate"
  /\ LET attempts == KvGet(ratelimit, proc[p].username) IN
       IF KvGet(users, proc[p].username) # None /\ IsLocked(attempts)
         THEN /\ proc' = Return(p, Err(E_TOO_MANY))
              /\ fails' = [fails EXCEPT ![proc[p].username] =
                             IF @ < MaxStreak THEN @ + 1 ELSE @]
         ELSE /\ proc' = [proc EXCEPT ![p].pc = "login_user",
                                      ![p].attempts = attempts]
              /\ fails' = fails
  /\ UNCHANGED <<kvVars, now, tokenCtr, boot, revoked, grants, obs, tally,
                 client>>

\* const attempts = await kv.get(rateLimitKey)
LoginRate(p) ==
  /\ proc[p].pc = "login_rate"
  /\ LET attempts == KvGet(ratelimit, proc[p].username) IN
       IF IsLocked(attempts)
         THEN /\ proc' = Return(p, Err(E_TOO_MANY))
              /\ fails' = [fails EXCEPT ![proc[p].username] =
                             IF @ < MaxStreak THEN @ + 1 ELSE @]
         ELSE /\ proc' = [proc EXCEPT ![p].pc = "login_user",
                                      ![p].attempts = attempts]
              /\ fails' = fails
  /\ UNCHANGED <<kvVars, now, tokenCtr, boot, revoked, grants, obs, tally,
                 client>>

\* A lookup that tells the caller at once that the user does not exist
LoginUser_RevealsUnknown(p) ==
  /\ proc[p].pc = "login_user"
  /\ LET user == KvGet(users, proc[p].username) IN
       proc' = IF user = None
                 THEN Return(p, Err(E_NOT_FOUND))
               ELSE IF ~BcryptCompare(proc[p].password, user[1].passwordHash)
                 THEN [proc EXCEPT ![p].pc = "login_fail"]
               ELSE [proc EXCEPT ![p].pc = "login_reset", ![p].user = user]
  /\ UNCHANGED <<kvVars, now, tokenCtr, boot, fails, revoked, grants, obs,
                 tally, client>>

\* A login that stores the session as soon as it has found the user, before
\* it compares the password
LoginUser_EarlySession(p) ==
  /\ proc[p].pc = "login_user"
  /\ LET user == KvGet(users, proc[p].username)
         token == tokenCtr + 1
     IN  IF user = None
           THEN /\ proc' = [proc EXCEPT ![p].pc = "login_fail"]
                /\ UNCHANGED <<sessions, tokenCtr, grants, client>>
           ELSE /\ tokenCtr' = token
                /\ sessions' = KvSet(sessions, token,
                                     NewSession(token, user[1]))
                /\ grants' = KvSet(grants, token,
                                   [username |-> proc[p].username,
                                    role |-> obs[p].role, at |-> now,
                                    returned |-> FALSE])
                /\ proc' =
                     IF ~BcryptCompare(proc[p].password, user[1].passwordHash)
                       THEN [proc EXCEPT ![p].pc = "login_fail"]
                       ELSE [proc EXCEPT ![p].pc = "login_reset",
                                         ![p].user = user]
  /\ UNCHANGED <<users, ratelimit, statistics, profile, now, boot, fails,
                 revoked, obs, tally, client>>

\* const user = await getUser(username), then bcrypt.compare
LoginUser(p) ==
  /\ proc[p].pc = "login_user"
  /\ LET user == KvGet(users, proc[p].username) IN
       proc' = IF user = None
                 THEN [proc EXCEPT ![p].pc = "login_fail"]
               ELSE IF ~BcryptCompare(proc[p].password, user[1].passwordHash)
                 THEN [proc EXCEPT ![p].pc = "login_fail"]
               ELSE [proc EXCEPT ![p].pc = "login_reset", ![p].user = user]
  /\ UNCHANGED <<kvVars, now, tokenCtr, boot, fails, revoked, grants, obs,
                 tally, client>>

\* await kv.set(rateLimitKey, (attempts || 0) + 1)
LoginFail(p) ==
  /\ proc[p].pc = "login_fail"
  /\ ratelimit' = KvSet(ratelimit, proc[p].username,
                        NextAttempts(proc[p].attempts))
  /\ proc' = Return(p, Err(E_INVALID_CREDENTIALS))
  /\ fails' = [fails EXCEPT ![proc[p].username] =
                 IF @ < MaxStreak THEN @ + 1 ELSE @]
  /\ tally' = [tally EXCEPT !.evaluated[proc[p].username] =
                 IF @ < MaxEvaluated THEN @ + 1 ELSE @]
  /\ UNCHANGED <<users, sessions, statistics, profile, now, tokenCtr, boot,
                 revoked, grants, obs, client>>

\* A successful login that leaves the failure counter in place
LoginReset_Keeps(p) ==
  /\ proc[p].pc = "login_reset"
  /\ ratelimit' = ratelimit
  /\ proc' = [proc EXCEPT ![p].pc = "login_session"]
  /\ UNCHANGED <<users, sessions, statistics, profile, now, tokenCtr, boot,
                 fails, revoked, grants, obs, tally, client>>

\* await kv.del(rateLimitKey)
LoginReset(p) ==
  /\ proc[p].pc = "login_reset"
  /\ ratelimit' = KvDel(ratelimit, proc[p].username)
  /\ proc' = [proc EXCEPT ![p].pc = "login_session"]
  /\ tally' = [tally EXCEPT !.evaluated[proc[p].username] = 0]
  /\ UNCHANGED <<users, sessions, statistics, profile, now, tokenCtr, boot,
                 fails, revoked, grants, obs, client>>

\* const token = generateToken(); await kv.set(`session:${token}`, session)
LoginSession(p) ==
  /\ proc[p].pc = "login_session"
  /\ LET token == tokenCtr + 1 IN
       /\ tokenCtr' = token
       /\ sessions' = KvSet(sessions, token, NewSession(token, proc[p].user[1]))
       /\ proc' = [proc EXCEPT ![p].pc = "login_stats_get", ![p].token = token]
       /\ grants' = KvSet(grants, token,
                          [username |-> proc[p].username,
                           role |-> obs[p].role, at |-> now,
                           returned |-> FALSE])
  /\ UNCHANGED <<users, ratelimit, statistics, profile, now, boot, fails,
                 revoked, obs, tally, client>>

\* const stats = await kv.get('statistics') || {...}
LoginStatsGet(p) ==
  /\ proc[p].pc = "login_stats_get"
  /\ proc' = [proc EXCEPT ![p].pc = "login_stats_set",
                          ![p].stats = IF statistics = None
                                         THEN Some(DefaultStats)
                                         ELSE statistics]
  /\ UNCHANGED <<kvVars, now, tokenCtr, boot, fails, revoked, grants, obs,
                 tally, client>>

\* stats.totalLogins += 1; await kv.set('statistics', stats); return
LoginStatsSet(p) ==
  /\ proc[p].pc = "login_stats_set"
  /\ statistics' = Some([proc[p].stats[1] EXCEPT !.totalLogins = @ + 1,
                                                 !.lastLogin = Some(now)])
  /\ proc' = Return(p, LoginOk(proc[p].token, proc[p].user[1].role))
  /\ fails' = [fails EXCEPT ![proc[p].username] = 0]
  /\ tally' = [tally EXCEPT !.logins = @ + 1]
  /\ grants' = [grants EXCEPT ![proc[p].token].returned = TRUE]
  /\ UNCHANGED <<users, sessions, ratelimit, profile, now, tokenCtr, boot,
                 revoked, obs, client>>

----------------------------------------------------------------------------
(* The login route *)

\* A value of the JSON body: a string, a number, or a field that is missing
Str(s) == [t |-> "string", v |-> s]
Num(n) == [t |-> "number", v |-> n]
Missing == [t |-> "undefined", v |-> 0]

\* !x
Falsy(x) ==
  \/ x.t = "undefined"
  \/ x.t = "string" /\ x.v = ""
  \/ x.t = "number" /\ x.v = 0

\* Body checks without the length limits
LoginBodyError_NoLength(username, password) ==
  IF Falsy(username) \/ Falsy(password) THEN Some(E_BODY_USER)
  ELSE IF username.t # "string" \/ password.t # "string"
    THEN Some(E_INPUT_FORMAT)
  ELSE None

\* The checks of the login route on the body, before auth.login is called:
\* the error it answers with 400, or None when the body passes
LoginBodyError(username, password) ==
  IF Falsy(username) \/ Falsy(password) THEN Some(E_BODY_USER)
  ELSE IF username.t # "string" \/ password.t # "string"
    THEN Some(E_INPUT_FORMAT)
  ELSE IF Len(username.v) > MaxLoginUsername
            \/ Len(password.v) > MaxLoginPassword
    THEN Some(E_INPUT_LONG)
  ELSE None

\* Whether a body has one of the shapes a login must not be attempted with:
\* a field missing or empty, a field that is not a string, a username of
\* more than 50 or a password of more than 100 characters
BodyShape(username, password) ==
  IF \/ username.t # "string" \/ password.t # "string"
     \/ username.v = "" \/ password.v = ""
     \/ Len(username.v) >= 51 \/ Len(password.v) >= 101
    THEN "bad" ELSE "ok"

\* POST /auth/login arrives: the body is checked and auth.login is called
LoginRoute(p, username, password) ==
  /\ CanStart(p)
  /\ LET q == [Idle EXCEPT !.op = "login", !.route = "POST /auth/login"]
         bad == LoginBodyError(username, password)
     IN  IF bad # None
           THEN /\ proc' = [proc EXCEPT ![p] =
                             [q EXCEPT !.pc = "done", !.result = Err(bad[1])]]
                /\ obs' = [obs EXCEPT ![p] =
                     [NoObs EXCEPT !.shape = BodyShape(username, password)]]
           ELSE /\ tokenCtr + LoginsInFlight < MaxTokens
                /\ proc' = [proc EXCEPT ![p] =
                             [q EXCEPT !.pc = "login_rate",
                                       !.username = username.v,
                                       !.password = password.v]]
                /\ obs' = [obs EXCEPT ![p] =
                     [NoObs EXCEPT
                        !.shape = BodyShape(username, password),
                        !.streak = fails[username.v],
                        !.locked = /\ KvHas(ratelimit, username.v)
                                   /\ ratelimit[username.v] >= 5,
                        !.role = IF KvHas(users, username.v)
                                   THEN users[username.v].role ELSE ""]]
  /\ UNCHANGED <<kvVars, now, tokenCtr, boot, fails, revoked, grants, tally,
                 client>>

\* An exception leaves login: the login route catches it and answers 500, a
\* direct caller of auth.login sees the promise rejected
Throw(p) ==
  Return(p, Err(IF proc[p].route = "POST /auth/login"
                  THEN E_LOGIN_SERVER ELSE E_REJECTED))

\* kv.get('statistics') fails
LoginStatsGetThrows(p) ==
  /\ proc[p].pc = "login_stats_get"
  /\ proc' = Throw(p)
  /\ UNCHANGED <<kvVars, now, tokenCtr, boot, fails, revoked, grants, obs,
                 tally, client>>

\* kv.set('statistics', stats) fails
LoginStatsSetThrows(p) ==
  /\ proc[p].pc = "login_stats_set"
  /\ proc' = Throw(p)
  /\ UNCHANGED <<kvVars, now, tokenCtr, boot, fails, revoked, grants, obs,
                 tally, client>>

----------------------------------------------------------------------------
(* validateSession, requireAdmin, logout *)

IsExpired_AtExpiry(session) == session.expiresAt <= now

\* new Date(session.expiresAt) < new Date()
IsExpired(session) == session.expiresAt < now

RequireAdmin_AnyRole(session) ==
  IF ~session.success THEN Err(E_INVALID_SESSION)
  ELSE [Ok EXCEPT !.username = session.username]

\* requireAdmin, after its call of validateSession has returned
RequireAdmin(session) ==
  IF ~session.success THEN Err(E_INVALID_SESSION)
  ELSE IF session.role # "admin" THEN Err(E_ADMIN_REQUIRED)
  ELSE [Ok EXCEPT !.username = session.username]

\* The session a fresh look at the user record would report
FreshRole(session) ==
  IF session.success /\ KvHas(users, session.username)
    THEN [session EXCEPT !.role = users[session.username].role]
    ELSE session

\* The handler of a privileged route, once requireAdmin has let it pass
Enter(p) ==
  LET q == [proc[p] EXCEPT !.authorized = TRUE] IN
  CASE proc[p].route = "GET /users" ->
         [proc EXCEPT ![p] = [q EXCEPT !.pc = "getAllUsers"]]
    [] proc[p].route = "POST /users" ->
         IF proc[p].username = "" \/ proc[p].password = ""
           THEN Return(p, Err(E_BODY_USER))
           ELSE [proc EXCEPT ![p] =
                  [q EXCEPT !.pc = "createUser_get",
                            !.role = IF @ = "" THEN "user" ELSE @]]
    [] proc[p].route = "PUT /users/:username/password" ->
         IF proc[p].password = ""
           THEN Return(p, Err(E_BODY_PASSWORD))
           ELSE [proc EXCEPT ![p] = [q EXCEPT !.pc = "updateUserPassword_get"]]
    [] proc[p].route = "DELETE /users/:username" ->
         [proc EXCEPT ![p] = [q EXCEPT !.pc = "deleteUser_get"]]
    [] proc[p].route = "PUT /profile" ->
         [proc EXCEPT ![p] = [q EXCEPT !.pc = "updateProfile_get"]]
    [] proc[p].route = "GET /statistics" ->
         [proc EXCEPT ![p] = [q EXCEPT !.pc = "getStatistics_get"]]

ValidateReturn_FreshRole(p, session) ==
  IF proc[p].op = "validateSession" THEN Return(p, FreshRole(session))
  ELSE Return(p, RequireAdmin(FreshRole(session)))

\* A route that goes on after a failed admin check
ValidateReturn_NoGate(p, session) ==
  IF proc[p].op = "validateSession" THEN Return(p, session)
  ELSE IF proc[p].route = "none" THEN Return(p, RequireAdmin(session))
  ELSE Enter(p)

\* validateSession returns `session` to its caller: to the caller of the
\* exported function, or to requireAdmin, which returns to its caller or to
\* the route that called it
ValidateReturn(p, session) ==
  IF proc[p].op = "validateSession" THEN Return(p, session)
  ELSE LET adminCheck == RequireAdmin(session) IN
       IF proc[p].route = "none" THEN Return(p, adminCheck)
       ELSE IF ~adminCheck.success THEN Return(p, Err(adminCheck.error))
       ELSE Enter(p)

CallValidateSession(p, token) ==
  /\ CanStart(p)
  /\ token \in Presentable
  /\ proc' = Call(p, "validateSession", "validateSession_get", "", "", "", token)
  /\ obs' = [obs EXCEPT ![p] =
       [NoObs EXCEPT !.revoked = token \in revoked,
                     !.stored = KvHas(sessions, token),
                     !.again = proc[p].pc = "done" /\ proc[p].op = "logout"
                                 /\ proc[p].token = token]]
  /\ UNCHANGED <<kvVars, now, tokenCtr, boot, fails, revoked, grants, tally,
                 client>>

CallRequireAdmin(p, token) ==
  /\ CanStart(p)
  /\ token \in Presentable
  /\ proc' = Call(p, "requireAdmin", "validateSession_get", "", "", "", token)
  /\ obs' = [obs EXCEPT ![p] =
       [NoObs EXCEPT !.revoked = token \in revoked,
                     !.stored = KvHas(sessions, token),
                     !.again = proc[p].pc = "done" /\ proc[p].op = "logout"
                                 /\ proc[p].token = token]]
  /\ UNCHANGED <<kvVars, now, tokenCtr, boot, fails, revoked, grants, tally,
                 client>>

\* A validation that renews the expiry of every session it finds valid
ValidateSessionGet_Renews(p) ==
  /\ proc[p].pc = "validateSession_get"
  /\ LET session == KvGet(sessions, proc[p].token) IN
       IF proc[p].token = EmptyToken \/ session = None
         THEN /\ proc' = ValidateReturn(p, SessionInvalid)
              /\ sessions' = sessions
       ELSE IF IsExpired(session[1])
         THEN /\ proc' = [proc EXCEPT ![p].pc = "validateSession_del"]
              /\ sessions' = sessions
       ELSE /\ proc' = ValidateReturn(p, SessionValid(session[1].username,
                                                     session[1].role))
            /\ sessions' = KvSet(sessions, proc[p].token,
                                 [session[1] EXCEPT
                                    !.expiresAt = now + SessionTTL])
  /\ UNCHANGED <<users, ratelimit, statistics, profile, now, tokenCtr, boot,
                 fails, revoked, grants, obs, tally, client>>

\* if (!token) ...; const session = await kv.get(`session:${token}`)
ValidateSessionGet(p) ==
  /\ proc[p].pc = "validateSession_get"
  /\ LET session == KvGet(sessions, proc[p].token) IN
       proc' = IF proc[p].token = EmptyToken
                 THEN ValidateReturn(p, SessionInvalid)
               ELSE IF session = None
                 THEN ValidateReturn(p, SessionInvalid)
               ELSE IF IsExpired(session[1])
                 THEN [proc EXCEPT ![p].pc = "validateSession_del"]
               ELSE ValidateReturn(p, SessionValid(session[1].username,
                                                   session[1].role))
  /\ UNCHANGED <<kvVars, now, tokenCtr, boot, fails, revoked, grants, obs,
                 tally, client>>

\* A lazy-expiry delete that removes every expired session with it
ValidateSessionDel_Sweep(p) ==
  /\ proc[p].pc = "validateSession_del"
  /\ sessions' = [t \in {k \in DOMAIN sessions \ {proc[p].token} :
                           ~IsExpired(sessions[k])} |-> sessions[t]]
  /\ proc' = ValidateReturn(p, SessionInvalid)
  /\ UNCHANGED <<users, ratelimit, statistics, profile, now, tokenCtr, boot,
                 fails, revoked, grants, obs, tally, client>>

\* await kv.del(`session:${token}`); return { valid: false }
ValidateSessionDel(p) ==
  /\ proc[p].pc = "validateSession_del"
  /\ sessions' = KvDel(sessions, proc[p].token)
  /\ proc' = ValidateReturn(p, SessionInvalid)
  /\ UNCHANGED <<users, ratelimit, statistics, profile, now, tokenCtr, boot,
                 fails, revoked, grants, obs, tally, client>>

CallLogout(p, token) ==
  /\ CanStart(p)
  /\ token \in Presentable
  /\ proc' = Call(p, "logout", "logout_del", "", "", "", token)
  /\ obs' = [obs EXCEPT ![p] =
       [NoObs EXCEPT !.revoked = token \in revoked,
                     !.stored = KvHas(sessions, token),
                     !.again = proc[p].pc = "done" /\ proc[p].op = "logout"
                                 /\ proc[p].token = token]]
  /\ UNCHANGED <<kvVars, now, tokenCtr, boot, fails, revoked, grants, tally,
                 client>>

\* kv.del of a key that holds no session, such as `sessions:${token}`
LogoutDel_WrongKey(p) ==
  /\ proc[p].pc = "logout_del"
  /\ sessions' = sessions
  /\ proc' = Return(p, Ok)
  /\ revoked' = revoked \cup ({proc[p].token} \cap Tokens)
  /\ UNCHANGED <<users, ratelimit, statistics, profile, now, tokenCtr, boot,
                 fails, grants, obs, tally, client>>

\* await kv.del(`session:${token}`)
LogoutDel(p) ==
  /\ proc[p].pc = "logout_del"
  /\ sessions' = KvDel(sessions, proc[p].token)
  /\ proc' = Return(p, Ok)
  /\ revoked' = revoked \cup ({proc[p].token} \cap Tokens)
  /\ UNCHANGED <<users, ratelimit, statistics, profile, now, tokenCtr, boot,
                 fails, grants, obs, tally, client>>

----------------------------------------------------------------------------
(* The profile module, as the privileged routes call it *)

\* { ...currentProfile, ...updates, updatedAt: new Date().toISOString() }
Merge(currentProfile, updates) ==
  [k \in DOMAIN currentProfile \cup DOMAIN updates \cup {"updatedAt"} |->
     IF k = "updatedAt" THEN now
     ELSE IF k \in DOMAIN updates THEN updates[k]
     ELSE currentProfile[k]]

\* updateProfile calls getProfile: const profile = await kv.get('profile')
UpdateProfileGet(p) ==
  /\ proc[p].pc = "updateProfile_get"
  /\ proc' = IF profile = None
               THEN [proc EXCEPT ![p].pc = "initializeProfile_get"]
               ELSE [proc EXCEPT ![p].pc = "updateProfile_set",
                                 ![p].current = profile]
  /\ UNCHANGED <<kvVars, now, tokenCtr, boot, fails, revoked, grants, obs,
                 tally, client>>

\* getProfile found nothing and calls initializeProfile, which reads again;
\* getProfile then returns DEFAULT_PROFILE whatever initializeProfile found
InitializeProfileGet(p) ==
  /\ proc[p].pc = "initializeProfile_get"
  /\ proc' = IF profile = None
               THEN [proc EXCEPT ![p].pc = "initializeProfile_set"]
               ELSE [proc EXCEPT ![p].pc = "updateProfile_set",
                                 ![p].current = Some(DEFAULT_PROFILE)]
  /\ UNCHANGED <<kvVars, now, tokenCtr, boot, fails, revoked, grants, obs,
                 tally, client>>

\* await kv.set('profile', DEFAULT_PROFILE)
InitializeProfileSet(p) ==
  /\ proc[p].pc = "initializeProfile_set"
  /\ profile' = Some(DEFAULT_PROFILE)
  /\ proc' = [proc EXCEPT ![p].pc = "updateProfile_set",
                          ![p].current = Some(DEFAULT_PROFILE)]
  /\ UNCHANGED <<users, sessions, ratelimit, statistics, now, tokenCtr, boot,
                 fails, revoked, grants, obs, tally, client>>

\* await kv.set('profile', updatedProfile); return { success: true }
UpdateProfileSet(p) ==
  /\ proc[p].pc = "updateProfile_set"
  /\ profile' = Some(Merge(proc[p].current[1], proc[p].updates))
  /\ proc' = [proc EXCEPT ![p].pc = "getProfile", ![p].current = None]
  /\ UNCHANGED <<users, sessions, ratelimit, statistics, now, tokenCtr, boot,
                 fails, revoked, grants, obs, tally, client>>

\* The route reads the profile back with getProfile and returns it.  No code
\* removes the 'profile' key, so this read finds the value just written or a
\* later one.
RouteGetProfile(p) ==
  /\ proc[p].pc = "getProfile"
  /\ proc' = Return(p, [Ok EXCEPT !.data =
                 {IF profile = None THEN DEFAULT_PROFILE ELSE profile[1]}])
  /\ UNCHANGED <<kvVars, now, tokenCtr, boot, fails, revoked, grants, obs,
                 tally, client>>

\* incrementProfileViews, which the public profile route starts for every
\* view without waiting for it
ViewsInFlight ==
  Cardinality({q \in Procs : proc[q].op = "incrementProfileViews"
                               /\ InFlight(q)})

CallIncrementProfileViews(p) ==
  /\ CanStart(p)
  /\ tally.views + ViewsInFlight < MaxViews
  /\ proc' = Call(p, "incrementProfileViews", "incrementProfileViews_get",
                  "", "", "", EmptyToken)
  /\ obs' = [obs EXCEPT ![p] = NoObs]
  /\ UNCHANGED <<kvVars, now, tokenCtr, boot, fails, revoked, grants, tally,
                 client>>

\* const stats = await kv.get('statistics') || {...}
IncrementProfileViewsGet(p) ==
  /\ proc[p].pc = "incrementProfileViews_get"
  /\ proc' = [proc EXCEPT ![p].pc = "incrementProfileViews_set",
                          ![p].stats = IF statistics = None
                                         THEN Some(DefaultStats)
                                         ELSE statistics]
  /\ UNCHANGED <<kvVars, now, tokenCtr, boot, fails, revoked, grants, obs,
                 tally, client>>

\* stats.profileViews += 1; await kv.set('statistics', stats)
IncrementProfileViewsSet(p) ==
  /\ proc[p].pc = "incrementProfileViews_set"
  /\ statistics' = Some([proc[p].stats[1] EXCEPT !.profileViews = @ + 1])
  /\ proc' = Return(p, Ok)
  /\ tally' = [tally EXCEPT !.views = @ + 1]
  /\ UNCHANGED <<users, sessions, ratelimit, profile, now, tokenCtr, boot,
                 fails, revoked, grants, obs, client>>

\* getStatistics: const stats = await kv.get('statistics')
GetStatisticsGet(p) ==
  /\ proc[p].pc = "getStatistics_get"
  /\ proc' = IF statistics = None
               THEN [proc EXCEPT ![p].pc = "getStatistics_set"]
               ELSE [proc EXCEPT ![p].pc = "getAllUsers",
                                 ![p].stats = statistics]
  /\ UNCHANGED <<kvVars, now, tokenCtr, boot, fails, revoked, grants, obs,
                 tally, client>>

\* await kv.set('statistics', defaultStats); return defaultStats
GetStatisticsSet(p) ==
  /\ proc[p].pc = "getStatistics_set"
  /\ statistics' = Some(DefaultStats)
  /\ proc' = [proc EXCEPT ![p].pc = "getAllUsers",
                          ![p].stats = Some(DefaultStats)]
  /\ UNCHANGED <<users, sessions, ratelimit, profile, now, tokenCtr, boot,
                 fails, revoked, grants, obs, tally, client>>

\* const users = await auth.getAllUsers(), and the response of the route:
\* { users } or { ...stats, totalUsers: users.length }
RouteGetAllUsers(p) ==
  /\ proc[p].pc = "getAllUsers"
  /\ proc' = Return(p, [Ok EXCEPT !.data =
                 IF proc[p].route = "GET /users" THEN GetAllUsers
                 ELSE {[stats |-> proc[p].stats[1],
                        totalUsers |-> Cardinality(GetAllUsers)]}])
  /\ UNCHANGED <<kvVars, now, tokenCtr, boot, fails, revoked, grants, obs,
                 tally, client>>

----------------------------------------------------------------------------
(* The privileged routes *)

PrivilegedRoutes ==
  {"GET /users", "POST /users", "PUT /users/:username/password",
   "DELETE /users/:username", "PUT /profile", "GET /statistics"}

\* The Authorization headers a client can send: none, or 'Bearer ' + a token
Headers == {None} \cup {Some(t) : t \in Presentable}

\* A request to a privileged route arrives.  Without an Authorization header
\* the route answers 401 at once; otherwise it strips 'Bearer ' and calls
\* requireAdmin(token), which calls validateSession(token).
Route(p, route, header, username, password, role, updates) ==
  /\ CanStart(p)
  /\ header \in Headers
  /\ LET q == [Idle EXCEPT !.op = "requireAdmin", !.route = route,
                           !.username = username, !.password = password,
                           !.role = role, !.updates = updates] IN
       proc' = IF header = None
                 THEN [proc EXCEPT ![p] =
                        [q EXCEPT !.pc = "done",
                                  !.result = Err(E_UNAUTHORIZED)]]
                 ELSE [proc EXCEPT ![p] =
                        [q EXCEPT !.pc = "validateSession_get",
                                  !.token = header[1]]]
  /\ obs' = [obs EXCEPT ![p] =
       [NoObs EXCEPT !.admin =
          /\ header # None
          /\ KvHas(sessions, header[1])
          /\ sessions[header[1]].role = "admin"
          /\ sessions[header[1]].expiresAt >= now]]
  /\ UNCHANGED <<kvVars, now, tokenCtr, boot, fails, revoked, grants, tally,
                 client>>

GetUsers(p, header) == Route(p, "GET /users", header, "", "", "", EmptyKv)

PostUsers(p, header, username, password, role) ==
  Route(p, "POST /users", header, username, password, role, EmptyKv)

PutPassword(p, header, username, newPassword) ==
  Route(p, "PUT /users/:username/password", header, username, newPassword,
        "", EmptyKv)

DeleteUsers(p, header, username) ==
  Route(p, "DELETE /users/:username", header, username, "", "", EmptyKv)

PutProfile(p, header, updates) ==
  Route(p, "PUT /profile", header, "", "", "", updates)

GetStatistics(p, header) ==
  Route(p, "GET /statistics", header, "", "", "", EmptyKv)

RouteSteps(p) ==
  \/ UpdateProfileGet(p)
  \/ InitializeProfileGet(p)
  \/ InitializeProfileSet(p)
  \/ UpdateProfileSet(p)
  \/ RouteGetProfile(p)
  \/ GetStatisticsGet(p)
  \/ GetStatisticsSet(p)
  \/ RouteGetAllUsers(p)

----------------------------------------------------------------------------
(* The client library: login, logout, validateSession, getCurrentUser,
   isAdmin *)

serverVars == <<kvVars, now, tokenCtr, boot, proc, fails, revoked, grants,
                obs, tally>>

ClientCanStart(c) == client.call[c].pc \in {"idle", "done"}

ClientCall(c, op, pc) ==
  [client EXCEPT !.call[c] = [ClientIdle EXCEPT !.pc = pc, !.op = op]]

ClientReturn(c, session, outcome, result) ==
  [client EXCEPT !.session = session,
                 !.call[c].pc = "done",
                 !.call[c].outcome = outcome,
                 !.call[c].result = result]

\* login(username, password): const response = await fetch(.../auth/login)
ClientCallLogin(c) ==
  /\ ClientCanStart(c)
  /\ client' = ClientCall(c, "login", "login_fetch")
  /\ UNCHANGED serverVars

\* if (response.ok && data.success) { setSession({ token, username, role });
\* return { success: true } } else return { success: false, ... }; a
\* rejected fetch is caught and returns { success: false, ... }
ClientLoginFetch(c) ==
  /\ client.call[c].pc = "login_fetch"
  /\ \E outcome \in FetchOutcomes, data \in LoginData :
       client' = IF outcome = "ok"
                   THEN ClientReturn(c, Some(data), outcome, TRUE)
                   ELSE ClientReturn(c, client.session, outcome, FALSE)
  /\ UNCHANGED serverVars

\* logout(): const session = getSession(); if (session) { try { await
\* fetch(.../auth/logout) } ... }; without a session, clearSession() at once
ClientCallLogout(c) ==
  /\ ClientCanStart(c)
  /\ client' = IF client.session # None
                 THEN ClientCall(c, "logout", "logout_fetch")
                 ELSE [ClientCall(c, "logout", "done") EXCEPT !.session = None]
  /\ UNCHANGED serverVars

\* A logout that clears the session only after a 2xx response
ClientLogoutFetch_OnSuccess(c) ==
  /\ client.call[c].pc = "logout_fetch"
  /\ \E outcome \in FetchOutcomes :
       client' = IF outcome = "ok"
                   THEN ClientReturn(c, None, outcome, TRUE)
                   ELSE ClientReturn(c, client.session, outcome, TRUE)
  /\ UNCHANGED serverVars

\* the fetch of logout settles, its response is not read and its rejection
\* is caught; clearSession()
ClientLogoutFetch(c) ==
  /\ client.call[c].pc = "logout_fetch"
  /\ \E outcome \in FetchOutcomes :
       client' = ClientReturn(c, None, outcome, TRUE)
  /\ UNCHANGED serverVars

\* validateSession(): const session = getSession(); if (!session) return
\* false; await fetch(.../auth/validate)
ClientCallValidateSession(c) ==
  /\ ClientCanStart(c)
  /\ client' = IF client.session = None
                 THEN ClientCall(c, "validateSession", "done")
                 ELSE ClientCall(c, "validateSession", "validate_fetch")
  /\ UNCHANGED serverVars

\* if (response.ok) return data.valid === true; clearSession(); return
\* false; a rejected fetch is caught and returns false.  The server sends
\* valid: true with every 2xx response of this route.
ClientValidateFetch(c) ==
  /\ client.call[c].pc = "validate_fetch"
  /\ \E outcome \in FetchOutcomes :
       client' = IF outcome = "ok"
                   THEN ClientReturn(c, client.session, outcome, TRUE)
                 ELSE IF outcome = "error"
                   THEN ClientReturn(c, None, outcome, FALSE)
                 ELSE ClientReturn(c, client.session, outcome, FALSE)
  /\ UNCHANGED serverVars

\* session?.username || null
GetCurrentUser(session) ==
  IF session = None THEN None
  ELSE IF session[1].username = "" THEN None
  ELSE Some(session[1].username)

\* if (!session) return false; if (username && username !==
\* session.username) return false; return session.role === 'admin'
IsAdmin(session, username) ==
  IF session = None THEN FALSE
  ELSE IF Truthy(username) /\ username[1] # session[1].username THEN FALSE
  ELSE session[1].role = "admin"

ClientGetCurrentUser ==
  /\ client' = [client EXCEPT !.seen =
       [NoAnswer EXCEPT !.fn = "getCurrentUser",
                        !.user = GetCurrentUser(client.session)]]
  /\ UNCHANGED serverVars

ClientIsAdmin(username) ==
  /\ client' = [client EXCEPT !.seen =
       [NoAnswer EXCEPT !.fn = "isAdmin", !.username = username,
                        !.admin = IsAdmin(client.session, username)]]
  /\ UNCHANGED serverVars

----------------------------------------------------------------------------

(* The clock *)

Tick(d) ==
  /\ now + d <= MaxTime
  /\ now' = now + d
  /\ UNCHANGED <<kvVars, tokenCtr, boot, proc, fails, revoked, grants, obs,
                 tally, client>>

----------------------------------------------------------------------------
(* The credential store under concurrent requests *)

\* The startup of the server, bcrypt drawing its salts from `salts`
Bootstrap(salts) ==
  \/ InitializeUsersRead
  \/ \E salt \in salts : InitializeUsersSetAdmin(salt)
  \/ \E salt \in salts : InitializeUsersSetUser(salt)
  \/ StartupProfileGet
  \/ StartupProfileSet

CredentialSteps(p) ==
  \/ CreateUserGet(p)
  \/ \E salt \in Salts : CreateUserSet(p, salt)
  \/ UpdateUserPasswordGet(p)
  \/ \E salt \in Salts : UpdateUserPasswordSet(p, salt)
  \/ DeleteUserGet(p)
  \/ DeleteUserList(p)
  \/ DeleteUserDel(p)

\* The server has started: its startup calls of initializeUsers and
\* initializeProfile have returned.  The requests below arrive after that.
Started == boot = "done"

\* The startup call of initializeUsers has returned
UsersReady == boot \in {"profile_get", "profile_set", "done"}

Next ==
  \/ Bootstrap(Salts)
  \/ /\ Started
     /\ \E p \in Procs :
          \/ \E u \in {"alice", ShortName}, pw \in {"pass1", ShortPassword},
                r \in {"admin", "user"} : CallCreateUser(p, u, pw, r)
          \/ \E u \in {"vossi", "alice"}, pw \in {"pass1"} :
                CallUpdateUserPassword(p, u, pw)
          \/ \E u \in {"vossi", "hannes", "alice"} : CallDeleteUser(p, u)
  \/ \E p \in Procs : CredentialSteps(p)

Spec == Init /\ [][Next]_vars

----------------------------------------------------------------------------
(* Credential store and login, one request at a time *)

LoginSteps(p) ==
  \/ LoginRate(p)
  \/ LoginUser(p)
  \/ LoginFail(p)
  \/ LoginReset(p)
  \/ LoginSession(p)
  \/ LoginStatsGet(p)
  \/ LoginStatsSet(p)

NextSeq ==
  \/ Bootstrap({1})
  \/ /\ Started
     /\ \E p \in SeqProcs :
          \/ \E u \in {"alice"}, pw \in {"pass1", ShortPassword},
                r \in {"admin", "user"} : CallCreateUser(p, u, pw, r)
          \/ \E u \in {"vossi", "alice"} : CallDeleteUser(p, u)
          \/ \E u \in {"vossi", "alice"}, pw \in {"password", "pass1"} :
                CallLogin(p, u, pw)
  \/ \E p \in SeqProcs :
       \/ CreateUserGet(p)
       \/ \E salt \in {1} : CreateUserSet(p, salt)
       \/ DeleteUserGet(p)
       \/ DeleteUserList(p)
       \/ DeleteUserDel(p)
       \/ LoginSteps(p)

SeqSpec == Init /\ [][NextSeq]_vars

----------------------------------------------------------------------------
(* Sessions over time, one request at a time *)

SessionSteps(p) ==
  \/ LoginRate(p)
  \/ LoginUser(p)
  \/ LoginReset(p)
  \/ LoginSession(p)
  \/ LoginStatsGet(p)
  \/ LoginStatsSet(p)
  \/ ValidateSessionGet(p)
  \/ ValidateSessionDel(p)
  \/ LogoutDel(p)

NextSession ==
  \/ Bootstrap({1})
  \/ \E d \in {SessionTTL, SessionTTL + 1} : Tick(d)
  \/ /\ Started
     /\ \E p \in SeqProcs :
          \/ CallLogin(p, "vossi", "password")
          \/ CallLogin(p, "hannes", "1511")
          \/ \E t \in Presentable : CallValidateSession(p, t)
          \/ \E t \in Presentable : CallRequireAdmin(p, t)
          \/ \E t \in Presentable : CallLogout(p, t)
  \/ \E p \in SeqProcs : SessionSteps(p)

SessionSpec == Init /\ [][NextSession]_vars

----------------------------------------------------------------------------
(* Sessions of a user who is deleted and created again, one request at a
   time *)

NextSnapshot ==
  \/ Bootstrap({1})
  \/ Tick(SessionTTL + 1)
  \/ /\ Started
     /\ \E p \in SeqProcs :
          \/ \E r \in {"admin", "user"} :
                CallCreateUser(p, "hannes", "1511", r)
          \/ CallUpdateUserPassword(p, "hannes", "pass1")
          \/ CallDeleteUser(p, "hannes")
          \/ \E pw \in {"1511", "pass1"} : CallLogin(p, "hannes", pw)
          \/ \E t \in Presentable \ {EmptyToken} : CallValidateSession(p, t)
          \/ \E t \in Presentable \ {EmptyToken} : CallLogout(p, t)
  \/ \E p \in SeqProcs :
       \/ CredentialSteps(p)
       \/ SessionSteps(p)
       \/ LoginFail(p)

SnapshotSpec == Init /\ [][NextSnapshot]_vars

----------------------------------------------------------------------------
(* The privileged routes.  Requests are served as soon as initializeUsers
   has returned.  One client sends the requests to the routes and logs in as
   the ordinary user; the administrator logs in from a second client, so that
   a route can run while that login is still in flight. *)

NextRoute ==
  \/ Bootstrap({1})
  \/ Tick(SessionTTL + 1)
  \/ /\ UsersReady
     /\ \E q \in Procs \ SeqProcs : CallLogin(q, "vossi", "password")
  \/ /\ UsersReady
     /\ \E p \in SeqProcs :
          \/ CallLogin(p, "hannes", "1511")
          \/ \E h \in Headers : GetUsers(p, h)
          \/ \E h \in Headers, pw \in {"pass1", ""} :
                PostUsers(p, h, "alice", pw, "")
          \/ \E h \in Headers, pw \in {"password", ""} :
                PutPassword(p, h, "alice", pw)
          \/ \E h \in Headers : DeleteUsers(p, h, "alice")
          \/ \E h \in Headers : PutProfile(p, h, [name |-> "edited"])
          \/ \E h \in Headers : GetStatistics(p, h)
  \/ \E p \in Procs :
       \/ LoginRate(p)
       \/ LoginUser(p)
       \/ LoginReset(p)
       \/ LoginSession(p)
       \/ LoginStatsGet(p)
       \/ LoginStatsSet(p)
       \/ ValidateSessionGet(p)
       \/ ValidateSessionDel(p)
       \/ CreateUserGet(p)
       \/ \E salt \in {1} : CreateUserSet(p, salt)
       \/ UpdateUserPasswordGet(p)
       \/ \E salt \in {1} : UpdateUserPasswordSet(p, salt)
       \/ DeleteUserGet(p)
       \/ DeleteUserList(p)
       \/ DeleteUserDel(p)
       \/ RouteSteps(p)

RouteSpec == Init /\ [][NextRoute]_vars

----------------------------------------------------------------------------
(* Failing logins under concurrent requests: a wrong password for the stored
   vossi, any password for the unknown alice *)

NextLoginRace ==
  \/ Bootstrap({1})
  \/ /\ Started
     /\ \E p \in Procs, u \in {"vossi", "alice"} : CallLogin(p, u, "pass1")
  \/ \E p \in Procs :
       \/ LoginRate(p)
       \/ LoginUser(p)
       \/ LoginFail(p)

LoginRaceSpec == Init /\ [][NextLoginRace]_vars

----------------------------------------------------------------------------
(* The login route, one request at a time, with a 'statistics' key whose
   reads and writes can fail *)

LoginBodyNames ==
  {Str("vossi"), Str("alice"), Str(""), Str(LoginLongName), Num(42), Num(0),
   Missing}

LoginBodyPasswords ==
  {Str("password"), Str("pass1"), Str(""), Str(LoginLongPassword), Num(42),
   Missing}

NextLoginRoute ==
  \/ Bootstrap({1})
  \/ /\ Started
     /\ \E p \in SeqProcs, u \in LoginBodyNames, pw \in LoginBodyPasswords :
          LoginRoute(p, u, pw)
  \/ \E p \in SeqProcs :
       \/ LoginSteps(p)
       \/ LoginStatsGetThrows(p)
       \/ LoginStatsSetThrows(p)

LoginRouteSpec == Init /\ [][NextLoginRoute]_vars

----------------------------------------------------------------------------
(* User management, one request at a time, with usernames and passwords at
   and beyond the limits of the length checks *)

NextManage ==
  \/ Bootstrap({1})
  \/ /\ Started
     /\ \E p \in SeqProcs :
          \/ \E u \in {"alice", ShortName, LongName, MinName, MaxName},
                pw \in {"pass1", ShortPassword}, r \in {"admin", "user"} :
                CallCreateUser(p, u, pw, r)
          \/ \E u \in {"alice", "hannes"}, pw \in {"pass1", ShortPassword} :
                CallUpdateUserPassword(p, u, pw)
          \/ \E u \in {"alice", "hannes"} : CallDeleteUser(p, u)
  \/ \E p \in SeqProcs :
       \/ CreateUserGet(p)
       \/ \E salt \in Salts : CreateUserSet(p, salt)
       \/ UpdateUserPasswordGet(p)
       \/ \E salt \in Salts : UpdateUserPasswordSet(p, salt)
       \/ DeleteUserGet(p)
       \/ DeleteUserList(p)
       \/ DeleteUserDel(p)

ManageSpec == Init /\ [][NextManage]_vars

----------------------------------------------------------------------------
(* Password changes and logins, one request at a time *)

NextPassword ==
  \/ Bootstrap({1})
  \/ /\ Started
     /\ \E p \in SeqProcs :
          \/ \E u \in {"vossi", "alice"}, pw \in {"pass1", ShortPassword} :
                CallUpdateUserPassword(p, u, pw)
          \/ \E pw \in {"password", "pass1"} : CallLogin(p, "vossi", pw)
  \/ \E p \in SeqProcs :
       \/ UpdateUserPasswordGet(p)
       \/ \E salt \in Salts : UpdateUserPasswordSet(p, salt)
       \/ LoginSteps(p)

PasswordSpec == Init /\ [][NextPassword]_vars

----------------------------------------------------------------------------
(* Restarts of the server between requests, one request at a time *)

\* The server starts again: the module is loaded anew and runs its startup
\* initialisation on the store the earlier run has left
Restart ==
  /\ boot = "done"
  /\ \A p \in Procs : ~InFlight(p)
  /\ boot' = "start"
  /\ UNCHANGED <<kvVars, now, tokenCtr, proc, fails, revoked, grants, obs,
                 tally, client>>

NextRestart ==
  \/ Bootstrap({1})
  \/ Restart
  \/ /\ Started
     /\ \E p \in SeqProcs :
          \/ \E r \in {"admin", "user"} :
                CallCreateUser(p, "alice", "pass1", r)
          \/ \E u \in {"vossi", "hannes"} :
                CallUpdateUserPassword(p, u, "pass1")
          \/ \E u \in {"vossi", "hannes", "alice"} : CallDeleteUser(p, u)
  \/ \E p \in SeqProcs :
       \/ CreateUserGet(p)
       \/ \E salt \in {1} : CreateUserSet(p, salt)
       \/ UpdateUserPasswordGet(p)
       \/ \E salt \in {1} : UpdateUserPasswordSet(p, salt)
       \/ DeleteUserGet(p)
       \/ DeleteUserList(p)
       \/ DeleteUserDel(p)

RestartSpec == Init /\ [][NextRestart]_vars

----------------------------------------------------------------------------
(* The 'statistics' key under concurrent requests: logins and profile views *)

NextStats ==
  \/ Bootstrap({1})
  \/ /\ Started
     /\ \E p \in Procs :
          \/ \E pw \in {"password", "pass1"} : CallLogin(p, "vossi", pw)
          \/ CallIncrementProfileViews(p)
  \/ \E p \in Procs :
       \/ LoginSteps(p)
       \/ IncrementProfileViewsGet(p)
       \/ IncrementProfileViewsSet(p)

StatsSpec == Init /\ [][NextStats]_vars

----------------------------------------------------------------------------
(* A lockout and the time after it, one request at a time.  Every login
   with a wrong password is made on day 0; the clock advances only between
   requests, so a login that runs on a later day starts a day or more - far
   more than 15 minutes - after the last failed attempt. *)

NextLockout ==
  \/ Bootstrap({1})
  \/ /\ \A p \in Procs : ~InFlight(p)
     /\ Tick(1)
  \/ /\ Started
     /\ \E p \in SeqProcs :
          \/ now = 0 /\ CallLogin(p, "vossi", "pass1")
          \/ CallLogin(p, "vossi", "password")
  \/ \E p \in SeqProcs : LoginSteps(p)

LockoutSpec == Init /\ [][NextLockout]_vars

----------------------------------------------------------------------------
(* The list of users and the results of the session functions, one request
   at a time *)

NextList ==
  \/ Bootstrap({1})
  \/ /\ Started
     /\ \E p \in SeqProcs :
          \/ \E r \in {"admin", "user"} :
                CallCreateUser(p, "alice", "pass1", r)
          \/ CallDeleteUser(p, "hannes")
          \/ \E pw \in {"password", "pass1"} : CallLogin(p, "vossi", pw)
          \/ \E t \in Presentable : CallValidateSession(p, t)
          \/ \E t \in Presentable : CallRequireAdmin(p, t)
          \/ \E h \in Headers : GetUsers(p, h)
  \/ \E p \in SeqProcs :
       \/ CreateUserGet(p)
       \/ \E salt \in Salts : CreateUserSet(p, salt)
       \/ DeleteUserGet(p)
       \/ DeleteUserList(p)
       \/ DeleteUserDel(p)
       \/ LoginSteps(p)
       \/ ValidateSessionGet(p)
       \/ RouteGetAllUsers(p)

ListSpec == Init /\ [][NextList]_vars

----------------------------------------------------------------------------
(* Where sessions come from: logins, user management and session checks for
   a user who is created, changed and deleted, one request at a time *)

NextOrigin ==
  \/ Bootstrap({1})
  \/ /\ Started
     /\ \E p \in SeqProcs :
          \/ \E r \in {"admin", "user"} :
                CallCreateUser(p, "alice", "pass1", r)
          \/ CallUpdateUserPassword(p, "alice", "password")
          \/ CallDeleteUser(p, "alice")
          \/ \E pw \in {"pass1", "password"} : CallLogin(p, "alice", pw)
          \/ \E t \in Presentable : CallValidateSession(p, t)
          \/ \E t \in Presentable : CallRequireAdmin(p, t)
  \/ \E p \in SeqProcs :
       \/ CreateUserGet(p)
       \/ \E salt \in {1} : CreateUserSet(p, salt)
       \/ UpdateUserPasswordGet(p)
       \/ \E salt \in {1} : UpdateUserPasswordSet(p, salt)
       \/ DeleteUserGet(p)
       \/ DeleteUserList(p)
       \/ DeleteUserDel(p)
       \/ LoginSteps(p)
       \/ ValidateSessionGet(p)

OriginSpec == Init /\ [][NextOrigin]_vars

----------------------------------------------------------------------------
(* POST /users with the values a JSON body can hold, one request at a time:
   a username that is a string or a number, a role that is missing, valid or
   any other string *)

NextPostUsers ==
  \/ Bootstrap({1})
  \/ /\ Started
     /\ \E p \in SeqProcs :
          \/ CallLogin(p, "vossi", "password")
          \/ \E h \in Headers, u \in {"alice", ShortName, NumberName},
                r \in {"", "admin", "superuser"} :
                PostUsers(p, h, u, "pass1", r)
  \/ \E p \in SeqProcs :
       \/ LoginRate(p)
       \/ LoginUser(p)
       \/ LoginReset(p)
       \/ LoginSession(p)
       \/ LoginStatsGet(p)
       \/ LoginStatsSet(p)
       \/ ValidateSessionGet(p)
       \/ CreateUserGet(p)
       \/ \E salt \in {1} : CreateUserSet(p, salt)

PostUsersSpec == Init /\ [][NextPostUsers]_vars

----------------------------------------------------------------------------
(* A login that succeeds overlapping a login that fails.  Process 1 sends
   wrong passwords for vossi one request at a time; process 2 sends the
   right password once, while a request of process 1 is in flight, and
   process 1 starts nothing after that.  So when both processes are done,
   their two logins overlapped in time. *)

NextResetRace ==
  \/ Bootstrap({1})
  \/ /\ Started
     /\ proc[2] = Idle
     /\ CallLogin(1, "vossi", "pass1")
  \/ /\ Started
     /\ proc[2] = Idle
     /\ InFlight(1)
     /\ CallLogin(2, "vossi", "password")
  \/ \E p \in Procs : LoginSteps(p)

ResetRaceSpec == Init /\ [][NextResetRace]_vars

----------------------------------------------------------------------------

(* Sessions of one user, with concurrent logins, validations and logouts *)

NextSessionRace ==
  \/ Bootstrap({1})
  \/ Tick(SessionTTL + 1)
  \/ /\ Started
     /\ \E p \in Procs :
          \/ CallLogin(p, "vossi", "password")
          \/ \E t \in Presentable : CallValidateSession(p, t)
          \/ \E t \in Presentable : CallRequireAdmin(p, t)
          \/ \E t \in Presentable : CallLogout(p, t)
  \/ \E p \in Procs : SessionSteps(p)

SessionRaceSpec == Init /\ [][NextSessionRace]_vars

----------------------------------------------------------------------------

(* The client library in one browser tab, its calls overlapping; every
   fetch may end with a 2xx response, another response or a network error *)

NextClient ==
  \/ \E c \in Procs :
       \/ ClientCallLogin(c)
       \/ ClientLoginFetch(c)
       \/ ClientCallLogout(c)
       \/ ClientLogoutFetch(c)
       \/ ClientCallValidateSession(c)
       \/ ClientValidateFetch(c)
  \/ ClientGetCurrentUser
  \/ \E username \in UsernameArgs : ClientIsAdmin(username)

ClientSpec == Init /\ [][NextClient]_vars

----------------------------------------------------------------------------

(* Claims about the credential store *)

Done(p, op) == proc[p].pc = "done" /\ proc[p].op = op

\* C1: once initializeUsers has completed, the number of stored user records
\* with role 'admin' is at least 1 in every reachable state, also when
\* createUser, updateUserPassword and deleteUser requests interleave at single
\* key-value accesses.
C1_LastAdmin == Started => AdminCount(users) >= 1

\* C2: deleteUser of the only admin returns 'Cannot delete the last admin
\* user', deleteUser of an absent username returns 'User not found'; in both
\* cases no step of the request changes the store, so the record is still
\* the one getUser returned before.
C2_DeleteRefused ==
  [][\A p \in SeqProcs :
       LET u == proc[p].username
           absent == ~KvHas(users, u)
           onlyAdmin == KvHas(users, u) /\ users[u].role = "admin"
                          /\ AdminCount(users) = 1
       IN  (proc[p].op = "deleteUser" /\ InFlight(p) /\ (absent \/ onlyAdmin))
           => /\ UNCHANGED kvVars
              /\ proc'[p].pc = "done" =>
                   proc'[p].result =
                     Err(IF absent THEN E_NOT_FOUND ELSE E_LAST_ADMIN)
              /\ proc'[p].pc # "deleteUser_del"]_vars

C2_Witness ==
  \E p \in SeqProcs :
    /\ Done(p, "deleteUser")
    /\ proc[p].result = Err(E_LAST_ADMIN)
    /\ KvHas(users, proc[p].username)
    /\ users[proc[p].username].role = "admin"
    /\ AdminCount(users) = 1

\* C3: with requests one after another, a login for a username whose last
\* five (or more) login attempts all failed returns the too-many-attempts
\* error, whatever the password, and no step of it changes the sessions.
C3_SixthLoginLocked ==
  [][\A p \in SeqProcs :
       (proc[p].op = "login" /\ InFlight(p) /\ obs[p].streak >= 5)
       => /\ sessions' = sessions
          /\ proc'[p].pc = "done" => proc'[p].result = Err(E_TOO_MANY)]_vars

C3_Witness ==
  \E p \in SeqProcs :
    /\ Done(p, "login")
    /\ obs[p].streak >= 5
    /\ proc[p].result = Err(E_TOO_MANY)
    /\ KvHas(users, proc[p].username)
    /\ BcryptCompare(proc[p].password, users[proc[p].username].passwordHash)

\* C6 as claimed: a login right after a successful createUser of the same
\* username succeeds with a token when the password is the created one, and
\* fails with 'Invalid credentials' when it is another one, whatever logins
\* came before the creation.
C6_LoginAfterCreate ==
  \A p \in SeqProcs :
    (Done(p, "login") /\ obs[p].prev # "none")
    => IF obs[p].prev = "same"
         THEN proc[p].result.success /\ proc[p].result.token \in Tokens
         ELSE proc[p].result = Err(E_INVALID_CREDENTIALS)

\* C6 as amended: the same, for a username whose failure counter is below 5
\* when the login starts; at 5 or more both logins return the
\* too-many-attempts error.
C6_LoginAfterCreateUnlocked ==
  \A p \in SeqProcs :
    (Done(p, "login") /\ obs[p].prev # "none")
    => IF obs[p].locked
         THEN proc[p].result = Err(E_TOO_MANY)
       ELSE IF obs[p].prev = "same"
         THEN proc[p].result.success /\ proc[p].result.token \in Tokens
         ELSE proc[p].result = Err(E_INVALID_CREDENTIALS)

C6_Witness ==
  \E p \in SeqProcs :
    /\ Done(p, "login")
    /\ obs[p].prev = "same"
    /\ obs[p].streak > 0
    /\ ~obs[p].locked
    /\ proc[p].result.success

----------------------------------------------------------------------------
(* Claims about sessions *)

\* A request of process p returns in this step
Returns(p, op) == proc[p].op = op /\ InFlight(p) /\ proc'[p].pc = "done"

\* The record stored for token t has not expired
Unexpired(t) == KvHas(sessions, t) /\ ~(sessions[t].expiresAt < now)

\* C5: requireAdmin(token) returns authorized with the session's username
\* exactly when the token has a stored, unexpired session whose role is
\* 'admin'; for such a session with another role it returns 'Admin access
\* required', and for an empty, unknown or expired token 'Invalid or expired
\* session'.
C5_RequireAdmin ==
  [][\A p \in SeqProcs :
       Returns(p, "requireAdmin") =>
         LET t == proc[p].token IN
         proc'[p].result =
           IF t = EmptyToken \/ ~Unexpired(t) THEN Err(E_INVALID_SESSION)
           ELSE IF sessions[t].role # "admin" THEN Err(E_ADMIN_REQUIRED)
           ELSE [Ok EXCEPT !.username = sessions[t].username]]_vars

C5_Witness ==
  \E p \in SeqProcs :
    /\ Done(p, "requireAdmin")
    /\ proc[p].result = Err(E_ADMIN_REQUIRED)
    /\ Unexpired(proc[p].token)

\* C7: a successful login(u, p) returns the role that u's user record held
\* when the login started, and a validateSession of the returned token that
\* returns before a logout of it and no later than 7 days after the session
\* was stored is valid with username u and that role.
C7_RoundTrip ==
  [][\A p \in SeqProcs :
       /\ (Returns(p, "login") /\ proc'[p].result.success) =>
            LET t == proc'[p].result.token IN
            /\ t \in DOMAIN grants
            /\ grants[t].username = proc[p].username
            /\ proc'[p].result.role = grants[t].role
       /\ (Returns(p, "validateSession") /\ proc[p].token \in DOMAIN grants
             /\ proc[p].token \notin revoked
             /\ now <= grants[proc[p].token].at + 7) =>
            proc'[p].result = SessionValid(grants[proc[p].token].username,
                                          grants[proc[p].token].role)]_vars

C7_Witness ==
  \E p \in SeqProcs :
    /\ Done(p, "validateSession")
    /\ proc[p].result.success
    /\ proc[p].result.username = "hannes"
    /\ now = grants[proc[p].token].at + 7

\* C8: a stored session record never changes; it is removed only by a logout
\* of its token or by a validateSession of its token after its expiry, never
\* by createUser, updateUserPassword or deleteUser; and every valid result of
\* validateSession is the username and role of the login that issued the
\* token, whatever the user record has become.
C8_SessionSnapshot ==
  [][/\ \A t \in DOMAIN sessions :
          IF t \in DOMAIN sessions'
            THEN sessions'[t] = sessions[t]
            ELSE \E p \in SeqProcs :
                   /\ proc[p].token = t
                   /\ \/ proc[p].pc = "logout_del"
                      \/ proc[p].pc = "validateSession_del"
                           /\ sessions[t].expiresAt < now
     /\ \A p \in SeqProcs :
          (Returns(p, "validateSession") /\ proc'[p].result.success) =>
            /\ proc'[p].result.username = grants[proc[p].token].username
            /\ proc'[p].result.role = grants[proc[p].token].role]_vars

C8_Witness ==
  \E p \in SeqProcs :
    /\ Done(p, "validateSession")
    /\ proc[p].result.success
    /\ proc[p].result.role = "user"
    /\ KvHas(users, proc[p].result.username)
    /\ users[proc[p].result.username].role = "admin"

\* C9: a validateSession that finds a stored session whose expiresAt is
\* earlier than now returns invalid and leaves no record under the token; one
\* that finds a session whose expiresAt is not earlier than now returns valid
\* and leaves the record as it was.
C9_LazyExpiry ==
  [][\A p \in SeqProcs :
       (Returns(p, "validateSession") /\ KvHas(sessions, proc[p].token)) =>
         LET t == proc[p].token IN
         IF sessions[t].expiresAt < now
           THEN proc'[p].result = SessionInvalid /\ ~KvHas(sessions', t)
           ELSE proc'[p].result.success /\ sessions' = sessions]_vars

C9_Witness ==
  \E p \in SeqProcs :
    /\ Done(p, "validateSession")
    /\ obs[p].stored
    /\ ~obs[p].revoked
    /\ proc[p].result = SessionInvalid
    /\ ~KvHas(sessions, proc[p].token)

\* C10: logout returns without error for every token; a logout of a token
\* that was already logged out, or that has no stored session, changes
\* nothing in the store; after a logout of a token no session is stored for
\* it and every validateSession of it returns invalid.
C10_LogoutFinal ==
  /\ [](\A t \in revoked : ~KvHas(sessions, t))
  /\ [][\A p \in SeqProcs :
          /\ Returns(p, "logout") =>
               /\ proc'[p].result = Ok
               /\ ~KvHas(sessions', proc[p].token)
               /\ (obs[p].again \/ obs[p].revoked \/ ~obs[p].stored)
                    => UNCHANGED kvVars
          /\ (Returns(p, "validateSession")
                /\ (obs[p].revoked \/ proc[p].token \notin 1..tokenCtr))
               => proc'[p].result = SessionInvalid]_vars

C10_Witness ==
  \E p \in SeqProcs :
    /\ Done(p, "validateSession")
    /\ obs[p].revoked
    /\ grants[proc[p].token].at + 7 >= now
    /\ proc[p].result = SessionInvalid

----------------------------------------------------------------------------
(* Claims about the privileged routes *)

\* The steps of a route's handler that follow the admin check
EffectPcs ==
  {"getAllUsers", "createUser_get", "createUser_set",
   "updateUserPassword_get", "updateUserPassword_set", "deleteUser_get",
   "deleteUser_list", "deleteUser_del", "updateProfile_get",
   "initializeProfile_get", "initializeProfile_set", "updateProfile_set",
   "getProfile", "getStatistics_get", "getStatistics_set"}

\* C4: a request to a privileged route whose Authorization header is missing
\* or whose token did not name a stored, unexpired session of role admin when
\* the request arrived never enters the route's handler past the admin check,
\* changes no user record, profile or statistics, discloses no data and is
\* answered with an error; and once the server has started, every change of a
\* user record or of the profile is a step of a route request that
\* requireAdmin has authorized.
C4_AdminGate ==
  [][/\ \A p \in Procs :
          (/\ proc'[p] # proc[p]
           /\ \/ proc[p].route \in PrivilegedRoutes /\ InFlight(p)
                   /\ ~obs[p].admin
              \/ CanStart(p) /\ proc'[p].route \in PrivilegedRoutes
                   /\ ~obs'[p].admin) =>
            /\ users' = users /\ profile' = profile
            /\ statistics' = statistics
            /\ proc'[p].pc \notin EffectPcs
            /\ ~proc'[p].authorized
            /\ proc'[p].result.data = {}
            /\ ~proc'[p].result.success
     /\ (boot = "done" /\ (users' # users \/ profile' # profile)) =>
          \E p \in Procs : /\ proc'[p] # proc[p]
                           /\ proc[p].route \in PrivilegedRoutes
                           /\ proc[p].authorized
                           /\ obs[p].admin]_vars

\* A request with the session of an ordinary user has been refused with 403
\* after the administrator's requests created alice and edited the profile
C4_Witness ==
  \E p \in Procs :
    /\ proc[p].pc = "done"
    /\ proc[p].route \in PrivilegedRoutes
    /\ ~obs[p].admin
    /\ proc[p].result = Err(E_ADMIN_REQUIRED)
    /\ KvHas(users, "alice")
    /\ profile # None /\ profile[1].name = "edited"

----------------------------------------------------------------------------
(* Claims about login and the rate limiter *)

\* C11: a login that starts while the failure counter of its username is 5
\* or more returns the too-many-attempts error in its first step: it never
\* reaches the user lookup or the digest comparison, no step of it changes a
\* stored value, and the result is this one whether the username exists or
\* not.
C11_CheckLockFirst ==
  [][\A p \in SeqProcs :
       (proc[p].op = "login" /\ InFlight(p) /\ obs[p].locked)
       => /\ UNCHANGED kvVars
          /\ proc[p].pc = "login_rate"
          /\ proc'[p].pc = "done"
          /\ proc'[p].result = Err(E_TOO_MANY)]_vars

\* A locked login for a name that was never stored has returned
C11_Witness ==
  \E p \in SeqProcs :
    /\ Done(p, "login")
    /\ obs[p].locked
    /\ ~KvHas(users, proc[p].username)
    /\ proc[p].result = Err(E_TOO_MANY)
    /\ ratelimit[proc[p].username] = 5

\* C12: a login for a username that is not locked when the login starts, made
\* for a user that does not exist or with a password that does not match the
\* stored digest, returns the one result { success: false, error: 'Invalid
\* credentials' } without token or role in both cases, and its only storage
\* effect in both cases is that the failure counter of the username becomes
\* one more than it was (1 if there was none).
C12_NoEnumeration ==
  [][\A p \in SeqProcs :
       LET u == proc[p].username
           unknown == ~KvHas(users, u)
           wrong == /\ KvHas(users, u)
                    /\ ~BcryptCompare(proc[p].password, users[u].passwordHash)
           count == IF KvHas(ratelimit, u) THEN ratelimit[u] ELSE 0
       IN  (proc[p].op = "login" /\ InFlight(p) /\ ~obs[p].locked
              /\ (unknown \/ wrong))
           => /\ users' = users /\ sessions' = sessions
              /\ statistics' = statistics /\ profile' = profile
              /\ IF proc'[p].pc = "done"
                   THEN /\ proc'[p].result = Err(E_INVALID_CREDENTIALS)
                        /\ ratelimit' = KvSet(ratelimit, u, count + 1)
                   ELSE ratelimit' = ratelimit]_vars

\* A login for the unknown alice has failed after a login for the stored
\* vossi failed; each raised the counter of its username
C12_Witness ==
  \E p \in SeqProcs :
    /\ Done(p, "login")
    /\ proc[p].username = "alice"
    /\ ~KvHas(users, "alice")
    /\ proc[p].result = Err(E_INVALID_CREDENTIALS)
    /\ KvHas(ratelimit, "alice") /\ ratelimit["alice"] = 2
    /\ KvHas(users, "vossi")
    /\ KvHas(ratelimit, "vossi") /\ ratelimit["vossi"] = 1

\* C13: with requests one after another, a login that passes the password
\* check has deleted the failure counter of its username before it stores
\* the session and the counter is still absent when it returns success; and
\* a login returns the too-many-attempts error only when the five (or more)
\* login attempts for the username before it all failed, so after a
\* success five further failures are needed to lock the username.
C13_SuccessResets ==
  [][\A p \in SeqProcs :
       /\ (proc[p].op = "login" /\ InFlight(p) /\ sessions' # sessions)
            => ~KvHas(ratelimit, proc[p].username)
       /\ (Returns(p, "login") /\ proc'[p].result.success)
            => /\ obs[p].streak < 5
               /\ ~KvHas(ratelimit', proc[p].username)
       /\ (Returns(p, "login") /\ proc'[p].result = Err(E_TOO_MANY))
            => obs[p].streak >= 5]_vars

\* A login has succeeded after four failures in a row, and the counter is gone
C13_Witness ==
  \E p \in SeqProcs :
    /\ Done(p, "login")
    /\ proc[p].result.success
    /\ obs[p].streak = 4
    /\ ~KvHas(ratelimit, proc[p].username)

\* The smaller of two numbers
Min(a, b) == IF a < b THEN a ELSE b

\* C14: whatever the interleaving of concurrent failing logins, the stored
\* failure counter of a username equals the number of failed attempts for
\* it, capped at 5 (no counter when there was none); two racing failed
\* logins raise it by 2.
C14_NoLostFailure ==
  \A u \in AllUsernames :
    (IF KvHas(ratelimit, u) THEN ratelimit[u] ELSE 0) = Min(fails[u], 5)

\* C15: a login that has stored its session returns success with the token
\* of that session, also when the read or the write of the 'statistics' key
\* fails, and the session stays stored.
C15_StatsBestEffort ==
  [][\A p \in SeqProcs :
       (/\ proc[p].op = "login"
        /\ proc[p].pc \in {"login_stats_get", "login_stats_set"}
        /\ proc'[p].pc = "done")
       => /\ proc'[p].result.success
          /\ proc'[p].result.token = proc[p].token
          /\ KvHas(sessions', proc[p].token)]_vars

----------------------------------------------------------------------------
(* Claims about user management *)

\* C16: with requests one after another, createUser returns success exactly
\* when the username is not stored, has 3 to 20 characters and the password
\* has at least 4; it then has added one record under that username, with
\* the given role and a digest of the given password, and changed no other
\* record.  Otherwise it returns one of the errors that apply (already
\* exists, invalid username, invalid password) and leaves every record
\* unchanged.  No step of it touches any other key.
C16_CreateUser ==
  [][\A p \in SeqProcs :
       LET u == proc[p].username
           pw == proc[p].password
           present == KvHas(users, u)
           badName == Len(u) < 3 \/ Len(u) > 20
           badPassword == Len(pw) < 4
       IN  (proc[p].op = "createUser" /\ InFlight(p))
           => /\ sessions' = sessions /\ ratelimit' = ratelimit
              /\ statistics' = statistics /\ profile' = profile
              /\ IF proc'[p].pc # "done" THEN users' = users
                 ELSE IF ~present /\ ~badName /\ ~badPassword
                   THEN /\ proc'[p].result = Ok
                        /\ DOMAIN users' = DOMAIN users \cup {u}
                        /\ \A k \in DOMAIN users : users'[k] = users[k]
                        /\ users'[u].username = u
                        /\ users'[u].role = proc[p].role
                        /\ users'[u].createdAt = now
                        /\ BcryptCompare(pw, users'[u].passwordHash)
                   ELSE /\ users' = users
                        /\ ~proc'[p].result.success
                        /\ proc'[p].result.error \in
                             (IF present THEN {E_USER_EXISTS} ELSE {})
                             \cup (IF badName THEN {E_USERNAME} ELSE {})
                             \cup (IF badPassword THEN {E_PASSWORD} ELSE {})
     ]_vars

\* Users with a name of 3 and of 20 characters have been created, and a
\* second createUser of an existing name has been refused
C16_Witness ==
  \E p \in SeqProcs :
    /\ Done(p, "createUser")
    /\ proc[p].result = Err(E_USER_EXISTS)
    /\ {MinName, MaxName} \subseteq DOMAIN users
    /\ Len(MinName) = 3 /\ Len(MaxName) = 20

\* C17: createUser called with a username of fewer than 3 or more than 20
\* characters or a password of fewer than 4, and updateUserPassword called
\* with a password of fewer than 4, return the invalid-input error whether
\* the username is stored or not.
C17_ValidationFirst ==
  [][\A p \in SeqProcs :
       LET badName == Len(proc[p].username) < 3 \/ Len(proc[p].username) > 20
           badPassword == Len(proc[p].password) < 4
       IN  /\ (Returns(p, "createUser") /\ (badName \/ badPassword))
                => proc'[p].result.error \in {E_USERNAME, E_PASSWORD}
           /\ (Returns(p, "updateUserPassword") /\ badPassword)
                => proc'[p].result.error = E_PASSWORD]_vars

----------------------------------------------------------------------------
(* Claims about the login route *)

\* C18: a request to the login route whose body has a missing or empty
\* username or password, a username or password that is not a string, a
\* username of more than 50 or a password of more than 100 characters is
\* answered at once with a validation error: no stored value changes, no
\* token is generated, and auth.login runs only for bodies without such a
\* defect.
C18_LoginShape ==
  [][\A p \in SeqProcs :
       /\ (/\ CanStart(p)
           /\ proc'[p] # proc[p]
           /\ proc'[p].route = "POST /auth/login"
           /\ obs'[p].shape = "bad")
          => /\ proc'[p].pc = "done"
             /\ ~proc'[p].result.success
             /\ proc'[p].result.error \in
                  {E_BODY_USER, E_INPUT_FORMAT, E_INPUT_LONG}
             /\ UNCHANGED <<kvVars, tokenCtr>>
       /\ (proc[p].route = "POST /auth/login" /\ InFlight(p))
          => obs[p].shape = "ok"]_vars

\* A body with a username of 51 characters has been refused; the counter of
\* that username was not touched, while an earlier login with a wrong
\* password was counted
C18_Witness ==
  \E p \in SeqProcs :
    /\ proc[p].pc = "done"
    /\ proc[p].route = "POST /auth/login"
    /\ obs[p].shape = "bad"
    /\ proc[p].result = Err(E_INPUT_LONG)
    /\ ~KvHas(ratelimit, LoginLongName)
    /\ KvHas(ratelimit, "vossi")

----------------------------------------------------------------------------
(* Claims about password changes and startup *)

\* C19: with requests one after another, updateUserPassword for a stored
\* user and a password of at least 4 characters returns success and has
\* replaced only the digest of that user's record: username, role and
\* createdAt are as before and no other key is written.  For a username that
\* is not stored it returns 'User not found', for a stored user and a shorter
\* password the password error, both without any change of the store.  A
\* login right after a successful update, for a username that is not locked,
\* succeeds with the new password and fails with 'Invalid credentials' with
\* any other, the old one included.
C19_UpdatePassword ==
  [][\A p \in SeqProcs :
       LET u == proc[p].username
           present == KvHas(users, u)
           badPassword == Len(proc[p].password) < 4
       IN  /\ (proc[p].op = "updateUserPassword" /\ InFlight(p))
              => /\ sessions' = sessions /\ ratelimit' = ratelimit
                 /\ statistics' = statistics /\ profile' = profile
                 /\ IF proc'[p].pc # "done" THEN users' = users
                    ELSE IF present /\ ~badPassword
                      THEN /\ proc'[p].result = Ok
                           /\ DOMAIN users' = DOMAIN users
                           /\ \A k \in DOMAIN users \ {u} :
                                users'[k] = users[k]
                           /\ users'[u].username = users[u].username
                           /\ users'[u].role = users[u].role
                           /\ users'[u].createdAt = users[u].createdAt
                           /\ BcryptCompare(proc[p].password,
                                            users'[u].passwordHash)
                      ELSE /\ users' = users
                           /\ proc'[p].result =
                                Err(IF ~present THEN E_NOT_FOUND
                                    ELSE E_PASSWORD)
           /\ (Returns(p, "login") /\ obs[p].updated # "none"
                 /\ ~obs[p].locked)
              => IF obs[p].updated = "new"
                   THEN proc'[p].result.success
                   ELSE proc'[p].result = Err(E_INVALID_CREDENTIALS)]_vars

\* After vossi's password was changed, a login with the old password has
\* failed, and vossi is still an administrator
C19_Witness ==
  \E p \in SeqProcs :
    /\ Done(p, "login")
    /\ proc[p].username = "vossi"
    /\ proc[p].password = "password"
    /\ obs[p].updated = "other"
    /\ proc[p].result = Err(E_INVALID_CREDENTIALS)
    /\ users["vossi"].role = "admin"
    /\ BcryptCompare("pass1", users["vossi"].passwordHash)

\* C20: a run of the startup initialisation that finds at least one user
\* record writes none: the users are those the earlier run and the requests
\* since have left, a changed password and a deleted default user included.
\* The only steps of a startup that change the user records are the write of
\* the default admin vossi (password 'password') into a store without user
\* records and the write of the default user hannes (password '1511') right
\* after it.
C20_BootstrapIdempotent ==
  [][(boot' # boot) =>
       /\ (boot = "start" /\ DOMAIN users # {})
            => (users' = users /\ boot' \notin {"set_admin", "set_user"})
       /\ (users' # users)
            => \/ /\ boot = "set_admin"
                  /\ DOMAIN users = {}
                  /\ DOMAIN users' = {"vossi"}
                  /\ users'["vossi"].role = "admin"
                  /\ BcryptCompare("password", users'["vossi"].passwordHash)
               \/ /\ boot = "set_user"
                  /\ DOMAIN users = {"vossi"}
                  /\ DOMAIN users' = {"vossi", "hannes"}
                  /\ users'["vossi"] = users["vossi"]
                  /\ users'["hannes"].role = "user"
                  /\ BcryptCompare("1511", users'["hannes"].passwordHash)
    ]_vars

\* A second startup has read the users and gone on without writing: hannes
\* stays deleted and vossi keeps the changed password
C20_Witness ==
  /\ boot = "profile_get"
  /\ DOMAIN users = {"vossi"}
  /\ BcryptCompare("pass1", users["vossi"].passwordHash)

----------------------------------------------------------------------------
(* Claims about the storage effects of the admin check and the lifetime of
   sessions *)

\* A step of the request that process p runs as a call of the exported
\* function op
StepOf(p, op) ==
  proc[p].op = op /\ proc[p].route = "none" /\ InFlight(p)
    /\ proc'[p] # proc[p]

\* C21 as claimed: no step of a requireAdmin call changes a stored value,
\* whatever the token: the store after the call is the store before it, also
\* for an unknown token and for a token whose session has expired.
C21_RequireAdminReadOnly ==
  [][\A p \in SeqProcs : StepOf(p, "requireAdmin") => UNCHANGED kvVars]_vars

\* C21 as amended: a requireAdmin call writes no value and touches no key
\* but session:<token>.  For an empty or unknown token and for a token whose
\* session has not expired the store after the call is the store before it;
\* for a token whose stored session has expired the call removes that one
\* session record and changes nothing else.
C21_RequireAdminDeletesExpiredOnly ==
  [][\A p \in SeqProcs :
       StepOf(p, "requireAdmin") =>
         LET t == proc[p].token IN
         /\ users' = users /\ ratelimit' = ratelimit
         /\ statistics' = statistics /\ profile' = profile
         /\ IF KvHas(sessions, t) /\ sessions[t].expiresAt < now
              THEN /\ sessions' \in {sessions, KvDel(sessions, t)}
                   /\ proc'[p].pc = "done" => sessions' = KvDel(sessions, t)
              ELSE sessions' = sessions]_vars

\* A requireAdmin of a token whose session had expired has returned and the
\* record is gone, while the session of another token is still stored
C21_Witness ==
  \E p \in SeqProcs :
    /\ Done(p, "requireAdmin")
    /\ obs[p].stored
    /\ ~obs[p].revoked
    /\ proc[p].result = Err(E_INVALID_SESSION)
    /\ ~KvHas(sessions, proc[p].token)
    /\ DOMAIN sessions # {}

\* C22: every stored session record has expiresAt = createdAt + 7 days,
\* createdAt being the time of the login that stored it; no step changes the
\* expiresAt of a stored record; and a validateSession that returns valid
\* returns no later than 7 days after the login that issued the token.
C22_AbsoluteExpiry ==
  /\ [](\A t \in DOMAIN sessions :
          /\ sessions[t].expiresAt = sessions[t].createdAt + 7
          /\ sessions[t].createdAt = grants[t].at)
  /\ [][/\ \A t \in DOMAIN sessions \cap DOMAIN sessions' :
             sessions'[t].expiresAt = sessions[t].expiresAt
        /\ \A p \in SeqProcs :
             (Returns(p, "validateSession") /\ proc'[p].result.success)
               => now <= grants[proc[p].token].at + 7]_vars

\* Eight days after its login a token that was never logged out has been
\* reported invalid, and a younger session is still stored
C22_Witness ==
  \E p \in SeqProcs :
    /\ Done(p, "validateSession")
    /\ proc[p].token \in DOMAIN grants
    /\ proc[p].token \notin revoked
    /\ now = grants[proc[p].token].at + 8
    /\ proc[p].result = SessionInvalid
    /\ \E t \in DOMAIN sessions : sessions[t].expiresAt >= now

----------------------------------------------------------------------------
(* Claims about the statistics and the lockout *)

\* C23: in every reachable state the stored totalLogins is the number of
\* logins that have returned success and the stored profileViews is the
\* number of incrementProfileViews calls that have completed (both 0 while
\* the key is absent), whatever the interleaving of the requests.
C23_StatsAccurate ==
  LET stats == IF statistics = None THEN DefaultStats ELSE statistics[1] IN
  /\ stats.totalLogins = tally.logins
  /\ stats.profileViews = tally.views

\* C24: a login with the correct password of a stored user that is made a
\* day or more after the last failed attempt for the username, that is
\* after the 15 minutes of the lockout, succeeds, also when five or more
\* attempts had failed before.
C24_LockoutRecovery ==
  [][\A p \in SeqProcs :
       (/\ Returns(p, "login")
        /\ now >= 1
        /\ KvHas(users, proc[p].username)
        /\ BcryptCompare(proc[p].password,
                         users[proc[p].username].passwordHash))
       => proc'[p].result.success]_vars

----------------------------------------------------------------------------
(* Claims about what the results disclose *)

\* The fields of a result of login, validateSession and requireAdmin
ResultFields == {"success", "error", "token", "username", "role", "data"}

\* C25: the list that getAllUsers returns has one entry for every stored
\* user record and no other, each entry being the username, role and
\* createdAt of its record and nothing else; and a result of login,
\* validateSession or requireAdmin carries no payload besides its token,
\* username and role, so no result holds a password digest.
C25_NoDigestDisclosed ==
  [][\A p \in SeqProcs :
       /\ (/\ proc[p].route = "GET /users"
           /\ InFlight(p)
           /\ proc'[p].pc = "done"
           /\ proc'[p].result.success)
          => LET data == proc'[p].result.data IN
             /\ Cardinality(data) = Cardinality(DOMAIN users)
             /\ \A e \in data : DOMAIN e = {"username", "role", "createdAt"}
             /\ \A k \in DOMAIN users :
                  \E e \in data : /\ e.username = k
                                  /\ e.role = users[k].role
                                  /\ e.createdAt = users[k].createdAt
       /\ \A op \in {"login", "validateSession", "requireAdmin"} :
            (StepOf(p, op) /\ proc'[p].pc = "done")
            => /\ DOMAIN proc'[p].result = ResultFields
               /\ proc'[p].result.data = {}
               /\ proc'[p].result.token \in {EmptyToken} \cup Tokens
               /\ proc'[p].result.username \in {""} \cup DOMAIN users
               /\ proc'[p].result.role \in {"", "admin", "user"}]_vars

\* The list has been returned for a store of three users, alice among them
C25_Witness ==
  \E p \in SeqProcs :
    /\ proc[p].pc = "done"
    /\ proc[p].route = "GET /users"
    /\ proc[p].result.success
    /\ Cardinality(proc[p].result.data) = 3
    /\ \E e \in proc[p].result.data : e.username = "alice"

\* C27: for every username, no more than 5 failed logins are evaluated
\* (taken past the lock check to the user lookup and the comparison, and
\* then counted) between two resets of its counter, whatever the
\* interleaving of concurrent logins.
C27_BruteForceBound ==
  \A u \in AllUsernames : tally.evaluated[u] <= 5

----------------------------------------------------------------------------
(* Claims about the outcome of login and the origin of sessions *)

\* C28: with requests one after another, every login(u, pw) returns exactly
\* one of three results: the too-many-attempts error when the counter of u
\* was 5 or more at the start; otherwise 'Invalid credentials' when no user
\* record for u exists or pw does not verify against its digest; otherwise
\* success with a token and the role of the record.
C28_LoginOutcome ==
  [][\A p \in SeqProcs :
       Returns(p, "login") =>
         LET u == proc[p].username
             r == proc'[p].result
         IN  IF obs[p].locked THEN r = Err(E_TOO_MANY)
             ELSE IF ~KvHas(users, u)
                       \/ ~BcryptCompare(proc[p].password,
                                         users[u].passwordHash)
               THEN r = Err(E_INVALID_CREDENTIALS)
             ELSE /\ r.success
                  /\ r.token \in Tokens
                  /\ r = LoginOk(r.token, users[u].role)]_vars

\* The fifth wrong password in a row for a stored user has been answered
\* with 'Invalid credentials': the counter read at the start was 4
C28_Witness ==
  \E p \in SeqProcs :
    /\ Done(p, "login")
    /\ proc[p].result = Err(E_INVALID_CREDENTIALS)
    /\ KvHas(users, proc[p].username)
    /\ ~obs[p].locked
    /\ ratelimit[proc[p].username] = 5

----------------------------------------------------------------------------
(* Claims about concurrent user management *)

\* C30: of the createUser requests that run concurrently for one username
\* that is not stored, at most one returns success: a createUser that
\* returns success has stored its record under a username that had none, so
\* it never replaces the record, password and role of another request that
\* was told it had succeeded.
C30_CreateUnique ==
  [][\A p \in Procs :
       (Returns(p, "createUser") /\ proc'[p].result.success)
       => /\ ~KvHas(users, proc[p].username)
          /\ users'[proc[p].username].role = proc[p].role
          /\ BcryptCompare(proc[p].password,
                           users'[proc[p].username].passwordHash)]_vars

----------------------------------------------------------------------------
(* Claims about the stored user records *)

\* C31: in every reachable state the role of every stored user record is
\* 'admin' or 'user', whatever role the body of POST /users holds.
C31_RoleEnum ==
  \A k \in DOMAIN users : users[k].role \in {"admin", "user"}

\* C32: in every reachable state every stored user record is stored under
\* its own username, and that username has a length, which is between 3 and
\* 20.
C32_UsernameKey ==
  \A k \in DOMAIN users :
    /\ users[k].username = k
    /\ JsLength(users[k].username) # None
    /\ JsLength(users[k].username)[1] \in 3..20

\* C33: a deleteUser that has returned success is not undone by an
\* updateUserPassword of the same username that was in flight: no step of
\* an updateUserPassword adds a user record, so after both requests the
\* record is gone and no login for the username can succeed.
C33_DeleteNotUndone ==
  [][\A p \in Procs :
       StepOf(p, "updateUserPassword")
       => DOMAIN users' \subseteq DOMAIN users]_vars

----------------------------------------------------------------------------
(* Claims about the failure counter under concurrent logins *)

\* C34: in every reachable state a stored failure counter is an integer
\* from 1 to 5, whatever the interleaving of concurrent logins; and once a
\* login has found the counter of a username at 5 and returned the
\* too-many-attempts error, no step writes that counter.
C34_CounterRange ==
  /\ [](\A u \in DOMAIN ratelimit : ratelimit[u] \in 1..5)
  /\ [][\A q \in Procs :
          (Done(q, "login") /\ proc[q].result = Err(E_TOO_MANY))
          => KvGet(ratelimit', proc[q].username)
               = KvGet(ratelimit, proc[q].username)]_vars

\* C35: when a login that succeeds and a login that fails with a wrong
\* password for the same username overlap in time, then once both have
\* returned the failure counter of that username is absent or 1.
C35_ResetNotUndone ==
  \A p, q \in Procs :
    (/\ Done(p, "login") /\ proc[p].result = Err(E_INVALID_CREDENTIALS)
     /\ Done(q, "login") /\ proc[q].result.success
     /\ proc[q].username = proc[p].username)
    => (KvHas(ratelimit, proc[p].username)
          => ratelimit[proc[p].username] <= 1)

----------------------------------------------------------------------------
(* Claims about the independence of sessions *)

\* C36: a step of logout(t), of validateSession(t) or of the validateSession
\* inside requireAdmin(t) removes no session record other than session:<t>:
\* every other stored session, also another session of the same username, is
\* stored unchanged after the step and is unexpired after it if it was
\* before; and the step leaves user records, failure counters and statistics
\* unchanged.
C36_SessionsIndependent ==
  [][\A p \in Procs :
       (\/ StepOf(p, "logout")
        \/ StepOf(p, "validateSession")
        \/ StepOf(p, "requireAdmin"))
       => /\ DOMAIN sessions' \subseteq DOMAIN sessions
          /\ \A t \in DOMAIN sessions \ {proc[p].token} :
               /\ KvGet(sessions', t) = KvGet(sessions, t)
               /\ Unexpired(t) => ~IsExpired(sessions'[t])
          /\ users' = users
          /\ ratelimit' = ratelimit
          /\ statistics' = statistics]_vars

\* An expired session was deleted by the validateSession that was given its
\* token, and another session is still stored
C36_Witness ==
  \E p \in Procs :
    /\ Done(p, "validateSession")
    /\ obs[p].stored
    /\ ~obs[p].revoked
    /\ proc[p].result = SessionInvalid
    /\ ~KvHas(sessions, proc[p].token)
    /\ \E t \in DOMAIN sessions :
         sessions[t].username = grants[proc[p].token].username

----------------------------------------------------------------------------
(* Claims about the client library *)

\* C37: the step in which the client library's logout() returns leaves no
\* session in sessionStorage, so that getCurrentUser() is null and isAdmin()
\* is false for every argument, whether the logout request got a 2xx
\* response, another response or a network error; and isAdmin(username)
\* answers true only when a session is stored, its role is 'admin' and the
\* username, if one is given (a non-empty string), is the session's username.
C37_ClientLogoutClears ==
  [][/\ \A c \in Procs :
          (/\ client'.call[c].op = "logout"
           /\ client'.call[c].pc = "done"
           /\ client'.call[c] # client.call[c])
          => /\ client'.session = None
             /\ GetCurrentUser(client'.session) = None
             /\ \A username \in UsernameArgs :
                  ~IsAdmin(client'.session, username)
     /\ (client'.seen # client.seen /\ client'.seen.fn = "isAdmin"
           /\ client'.seen.admin)
        => /\ client.session # None
           /\ client.session[1].role = "admin"
           /\ Truthy(client'.seen.username)
                => client'.seen.username[1] = client.session[1].username]_vars

\* isAdmin('vossi') has answered true, and then a logout whose request
\* failed with a network error has returned
C37_Witness ==
  \E c \in Procs :
    /\ client.call[c].op = "logout"
    /\ client.call[c].pc = "done"
    /\ client.call[c].outcome = "network"
    /\ client.session = None
    /\ client.seen = [NoAnswer EXCEPT !.fn = "isAdmin",
                                      !.username = Some("vossi"),
                                      !.admin = TRUE]

============================================================================
